---------------------------- MODULE Spec2Model ----------------------------
(***************************************************************************)
(* Rate limiter: the Redis token-bucket store (Lua script, block flag) and *)
(* the CheckRateLimit use case (Execute) that runs on top of it.           *)
(*                                                                         *)
(* Time is counted in ticks of the Redis server's clock (TicksPerSec per   *)
(* second).  Durations (Window, BlockTime, key TTLs) are in ticks.  The    *)
(* Go callers read time.Now().Unix(), i.e. whole seconds.                  *)
(*                                                                         *)
(* Token counts are Lua doubles.  They are kept here as integers counted   *)
(* in 1/TokenUnits of a token; the windows of the model are chosen so that *)
(* every refill is a multiple of that unit, and the arithmetic is exact    *)
(* (as it is in double precision for these values).                        *)
(***************************************************************************)
EXTENDS Integers, Sequences, FiniteSets

\* ------------------------------------------------------------------ bounds

NumRequests == 3        \* concurrent callers (goroutines / requests in flight)
MaxCapacity == 3        \* largest Limit of a policy
MaxClock == 3           \* Tick stops advancing the clock at this many ticks
MaxSeconds == 3         \* TickSecond stops advancing the clock at this many seconds
TicksPerSec == 2        \* clock resolution: ticks per second
MaxBlockTicks == 2      \* longest BlockTime of a policy, in ticks
MaxHeaderLen == 3       \* longest header value and remote address, in characters

\* ------------------------------------------------------- program constants

BucketTTLSeconds == 3600

RateLimitExceededMessage ==
    "you have reached the maximum number of requests or actions allowed within a certain time frame"

KeyTypeIP == "ip"

KeyTypeToken == "token"

\* --------------------------------------------------------------- input sets

Requests == 1 .. NumRequests

NewIPKey(ip) == [Type |-> KeyTypeIP, Value |-> ip]

NewTokenKey(token) == [Type |-> KeyTypeToken, Value |-> token]

IpA == NewIPKey("192.168.1.1")

TokA == NewTokenKey("abc123")

Identities == {IpA, TokA}

\* Windows of one and of two seconds.
Windows == {TicksPerSec, 2 * TicksPerSec}

\* No block time (a missing or unparsable *_BLOCK_TIME setting) and the longest.
BlockTimes == {0, MaxBlockTicks}

Capacities == 1 .. MaxCapacity

\* Tokens are counted in 1/TokenUnits: the least unit in which one second of
\* refill, capacity * TicksPerSec / window, is whole for every window.
TokenUnits ==
    CHOOSE u \in 1 .. (2 * TicksPerSec) :
        /\ \A w \in Windows : (u * TicksPerSec) % w = 0
        /\ \A v \in 1 .. (u - 1) : \E w \in Windows : (v * TicksPerSec) % w # 0

Min(a, b) == IF a <= b THEN a ELSE b

\* ------------------------------------------------------------------- state

VARIABLES
    clock,          \* Redis server time, in ticks
    tokensKey,      \* <key>:tokens       : [val, exp] per identity
    lastRefillKey,  \* <key>:last_refill  : [val, exp] per identity
    blockedKey,     \* <key>:blocked      : [val, exp] per identity
    api,            \* what each caller invokes: "Execute" or "CheckAndConsume"
    req,            \* each caller's HTTP request: client IP and API_KEY header
    resp,           \* each caller's HTTP response and the calls of the next handler
    config,         \* the server's configuration: IP policy and token policies
    redisKeys,      \* the names of the Redis keys each caller's storage calls use
    rateLimit,      \* an entity.RateLimit held in memory, and what ConsumeToken returned
    input,          \* each caller's Input{Key, Limit, Window, BlockTime}
    pc,             \* each caller's position
    now,            \* each caller's local `now` (seconds), read before the script runs
    result,         \* each caller's CheckResult from the store
    out,            \* each caller's (Output, error) from Execute
    calls,          \* the store operations each caller has invoked, in order
    lastJE,         \* clock of the latest Execute that returned "just exhausted"; -1 if none
    lastSet,        \* per identity, the latest SetBlock that succeeded: its clock, block time, flag replaced
    lastRun,        \* the caller whose script Redis ran last; 0 if none
    batch           \* the latest run of consecutive scripts that carried one timestamp

storeVars == <<tokensKey, lastRefillKey, blockedKey>>

httpVars == <<req, resp, config>>

vars == <<clock, tokensKey, lastRefillKey, blockedKey, api, req, resp, config, redisKeys,
          rateLimit, input,
          pc, now,
          result, out, calls, lastJE, lastSet, lastRun, batch>>

histVars == <<lastJE, lastSet, lastRun, batch>>

\* A caller that is not an HTTP request, and a response nothing was written to.
NoRequest == [ip |-> "", apiKey |-> ""]

NoResponse == [status |-> 0, message |-> "", error |-> "", next |-> 0]

\* The configuration of the example deployment: one request per second per
\* IP, and the token abc123 with a policy of its own.
DefaultConfig ==
    [IPLimit |-> 1, IPWindow |-> TicksPerSec, IPBlockTime |-> MaxBlockTicks,
     TokenConfigs |->
        [t \in {"abc123"} |->
            [Limit |-> MaxCapacity, Window |-> 2 * TicksPerSec,
             BlockTime |-> MaxBlockTicks - 1]]]

\* The callers that run CheckRateLimitUseCase.Execute: directly, or as step 4
\* of the middleware's Handle.
CallsExecute(r) == api[r] \in {"Execute", "Handle"}

\* The zero value of entity.RateLimit, with the error its last ConsumeToken
\* returned ("" before any).  Window is a time.Duration and LastRefill a
\* time.Time, both in ticks; CurrentTokens, a float64, is counted in
\* 1/EntityUnits.
NoRateLimit ==
    [Limit |-> 0, Window |-> 0, CurrentTokens |-> 0, LastRefill |-> 0, err |-> ""]

\* Before a caller's storage call has named its keys.
NoKeys == [canonical |-> "", tokens |-> "", lastRefill |-> "", blocked |-> ""]

\* A Redis string key with an absolute expiry; exp = 0 is a key never written.
NoKey == [val |-> 0, exp |-> 0]

Exists(k) == clock < k.exp

\* -------------------------------------------------------------- limiter key

\* LimiterKey.IsValid
IsValid(k) == k.Type # "" /\ k.Value # ""

\* Mutant: the canonical string leaves the kind of the key out.
String_NoKind(k) == "rate_limit:" \o k.Value

\* LimiterKey.String: rate_limit:<type>:<value>
String(k) == "rate_limit:" \o k.Type \o ":" \o k.Value

\* Mutant: the window is not checked.
Validate_NoWindowCheck(i) ==
    IF ~IsValid(i.Key) THEN "invalid limiter key"
    ELSE IF i.Limit <= 0 THEN "limit must be positive"
    ELSE IF i.BlockTime < 0 THEN "block time cannot be negative"
    ELSE ""

\* Input.Validate: the error, or "" for nil.
Validate(i) ==
    IF ~IsValid(i.Key) THEN "invalid limiter key"
    ELSE IF i.Limit <= 0 THEN "limit must be positive"
    ELSE IF i.Window <= 0 THEN "window must be positive"
    ELSE IF i.BlockTime < 0 THEN "block time cannot be negative"
    ELSE ""

\* ------------------------------------------------------------ Lua script

\* Redis converts a Lua number of a script's reply to an integer reply by
\* truncation toward zero.
ToRedisInteger(t) ==
    IF t >= 0 THEN t \div TokenUnits ELSE -((-t) \div TokenUnits)

\* elapsed = now - last_refill
Elapsed(nowSec, lastRefill) == nowSec - lastRefill

\* tokens_to_add = elapsed * (capacity / window_seconds), in token units
TokensToAdd(elapsed, capacity, window) ==
    (elapsed * capacity * TicksPerSec * TokenUnits) \div window

\* Mutant: the refill without the cap at capacity.
Refill_Uncapped(tokens, lastRefill, capacity, window, nowSec) ==
    tokens + TokensToAdd(Elapsed(nowSec, lastRefill), capacity, window)

\* tokens = math.min(capacity, tokens + tokens_to_add)
Refill(tokens, lastRefill, capacity, window, nowSec) ==
    Min(capacity * TokenUnits,
        tokens + TokensToAdd(Elapsed(nowSec, lastRefill), capacity, window))

\* Mutant: any non-empty bucket may be consumed from.
CanConsume_NonEmpty(tokens) == tokens > 0

\* if tokens >= 1
CanConsume(tokens) == tokens >= TokenUnits

\* Mutant: the token is not taken.
Consume_None(tokens) == tokens

\* tokens = tokens - 1
Consume(tokens) == tokens - TokenUnits

\* Mutant: the denied branch renews the time to live of the tokens key.
TokenBucketScript_DeniedRenewsTokens(tk, lk, capacity, window, nowSec) ==
    LET tokens0 == IF Exists(tk) THEN tk.val ELSE capacity * TokenUnits
        last == IF Exists(lk) THEN lk.val ELSE nowSec
        tokens == Refill(tokens0, last, capacity, window, nowSec)
        ttl == clock + BucketTTLSeconds * TicksPerSec
    IN  IF CanConsume(tokens)
        THEN [reply |-> <<1, ToRedisInteger(Consume(tokens)), capacity>>,
              tokensKey |-> [val |-> Consume(tokens), exp |-> ttl],
              lastRefillKey |-> [val |-> nowSec, exp |-> ttl]]
        ELSE [reply |-> <<0, ToRedisInteger(tokens), capacity>>,
              tokensKey |-> [val |-> tokens0, exp |-> ttl],
              lastRefillKey |-> [val |-> nowSec, exp |-> ttl]]

\* The script on the two keys as Redis holds them: what it returns and writes.
TokenBucketScript(tk, lk, capacity, window, nowSec) ==
    LET tokens0 == IF Exists(tk) THEN tk.val ELSE capacity * TokenUnits
        last == IF Exists(lk) THEN lk.val ELSE nowSec
        tokens == Refill(tokens0, last, capacity, window, nowSec)
        ttl == clock + BucketTTLSeconds * TicksPerSec
    IN  IF CanConsume(tokens)
        THEN [reply |-> <<1, ToRedisInteger(Consume(tokens)), capacity>>,
              tokensKey |-> [val |-> Consume(tokens), exp |-> ttl],
              lastRefillKey |-> [val |-> nowSec, exp |-> ttl]]
        ELSE [reply |-> <<0, ToRedisInteger(tokens), capacity>>,
              tokensKey |-> tk,
              lastRefillKey |-> [val |-> nowSec, exp |-> ttl]]

\* ---------------------------------------------------------- Redis storage

NoResult == [Allowed |-> FALSE, CurrentTokens |-> 0, Limit |-> 0, set |-> FALSE]

\* parseScriptResult and the CheckResult built from it
CheckResult(reply, limit) ==
    [Allowed |-> reply[1] = 1, CurrentTokens |-> reply[2], Limit |-> limit, set |-> TRUE]

\* Mutant: the block key does not depend on the limiter key.
IsBlocked_AnyKey(key) == \E k \in DOMAIN blockedKey : Exists(blockedKey[k])

\* Mutant: the EXISTS count is compared with 1 instead of 0.
IsBlocked_GreaterThanOne(key) == FALSE

\* RedisStorage.IsBlocked: EXISTS <key>:blocked
IsBlocked(key) == Exists(blockedKey[key])

\* RedisStorage.generateTokenKeys
generateTokenKeys(keyStr) ==
    [tokensKey |-> keyStr \o ":tokens", lastRefillKey |-> keyStr \o ":last_refill"]

\* RedisStorage.generateBlockKey
generateBlockKey(key) == String(key) \o ":blocked"

\* time.Now().Unix()
UnixNow == clock \div TicksPerSec

\* Mutant: the flag is set with the bucket keys' time to live, not the block time.
BlockFlag_BucketTTL(blockTime) ==
    [val |-> 1, exp |-> clock + BucketTTLSeconds * TicksPerSec]

\* Mutant: the flag expires after half the block time.
BlockFlag_Halved(blockTime) == [val |-> 1, exp |-> clock + blockTime \div 2]

\* RedisStorage.SetBlock: the value of <key>:blocked after SET ... blockTime
BlockFlag(blockTime) == [val |-> 1, exp |-> clock + blockTime]

\* Mutant: SET ... NX, an earlier flag is kept.
SetBlock_KeepsEarlier(key, blockTime) ==
    IF Exists(blockedKey[key])
    THEN blockedKey
    ELSE [blockedKey EXCEPT ![key] = BlockFlag(blockTime)]

\* RedisStorage.SetBlock with a positive block time: the block flags after it.
SetBlock(key, blockTime) == [blockedKey EXCEPT ![key] = BlockFlag(blockTime)]

\* History of a SetBlock that succeeds now: its clock, its block time and the
\* expiry of the unexpired flag it replaces (0 if there is none).
LatestSet(key, blockTime) ==
    [at |-> clock, d |-> blockTime,
     prev |-> IF Exists(blockedKey[key]) THEN blockedKey[key].exp ELSE 0]

\* No SetBlock on the identity has succeeded.
NeverSet == [at |-> -1, d |-> 0, prev |-> 0]

\* --------------------------------------------------------------- use case

Pending == [ret |-> "pending", Allowed |-> FALSE, Blocked |-> FALSE,
            CurrentTokens |-> 0, Limit |-> 0, Message |-> "", Err |-> ""]

Error(e) == [Pending EXCEPT !.ret = "err", !.Err = e]

createBlockedOutput ==
    [Pending EXCEPT !.ret = "ok", !.Allowed = FALSE, !.Blocked = TRUE,
                    !.Message = RateLimitExceededMessage]

\* Mutant: a store error is replaced by an error of the use case's own.
Propagate_Wrapped(err) == Error("rate limit check failed")

\* Mutant: a store error is answered with the blocked output.
Propagate_Output(err) == createBlockedOutput

\* Execute on a store error: return nil, err
Propagate(err) == Error(err)

\* The errors RedisStorage returns when Redis fails.
ErrIsBlocked == "failed to check block status"

ErrCheckAndConsume == "failed to execute token bucket script"

ErrSetBlock == "failed to set block"

\* Mutant: the output of a request that was just denied says Blocked.
createRateLimitExceededOutput_Blocked(res) ==
    [Pending EXCEPT !.ret = "ok", !.Allowed = FALSE, !.Blocked = TRUE,
                    !.CurrentTokens = res.CurrentTokens, !.Limit = res.Limit,
                    !.Message = RateLimitExceededMessage]

createRateLimitExceededOutput(res) ==
    [Pending EXCEPT !.ret = "ok", !.Allowed = FALSE, !.Blocked = FALSE,
                    !.CurrentTokens = res.CurrentTokens, !.Limit = res.Limit,
                    !.Message = RateLimitExceededMessage]

\* Mutant: the allowed output does not carry the store's token count.
createAllowedOutput_NoTokens(res) ==
    [Pending EXCEPT !.ret = "ok", !.Allowed = TRUE, !.Blocked = FALSE,
                    !.Limit = res.Limit]

createAllowedOutput(res) ==
    [Pending EXCEPT !.ret = "ok", !.Allowed = TRUE, !.Blocked = FALSE,
                    !.CurrentTokens = res.CurrentTokens, !.Limit = res.Limit]

\* Execute, steps 1 and 2: validate the input, then ask IsBlocked.
ExecuteIsBlocked(r) ==
    /\ CallsExecute(r)
    /\ pc[r] = "start"
    /\ IF Validate(input[r]) # ""
       THEN /\ out' = [out EXCEPT ![r] = Error(Validate(input[r]))]
            /\ pc' = [pc EXCEPT ![r] = "done"]
            /\ UNCHANGED calls
       ELSE /\ calls' = [calls EXCEPT ![r] = Append(@, "IsBlocked")]
            /\ IF IsBlocked(input[r].Key)
               THEN /\ out' = [out EXCEPT ![r] = createBlockedOutput]
                    /\ pc' = [pc EXCEPT ![r] = "done"]
               ELSE /\ pc' = [pc EXCEPT ![r] = "check"]
                    /\ UNCHANGED out
    /\ UNCHANGED <<clock, storeVars, api, redisKeys, rateLimit, httpVars, input, now, result, histVars>>

\* RedisStorage.CheckAndConsume up to the script call: check the arguments
\* and read the caller's clock.
CheckAndConsumeNow(r) ==
    /\ \/ CallsExecute(r) /\ pc[r] = "check"
       \/ api[r] = "CheckAndConsume" /\ pc[r] = "start"
    /\ calls' = [calls EXCEPT ![r] = Append(@, "CheckAndConsume")]
    /\ IF input[r].Limit <= 0 \/ input[r].Window <= 0
       THEN /\ out' = [out EXCEPT ![r] =
                          Error(IF input[r].Limit <= 0
                                THEN "limit must be positive"
                                ELSE "window must be positive")]
            /\ pc' = [pc EXCEPT ![r] = "done"]
            /\ UNCHANGED now
       ELSE /\ now' = [now EXCEPT ![r] = UnixNow]
            /\ pc' = [pc EXCEPT ![r] = "script"]
            /\ UNCHANGED out
    /\ UNCHANGED <<clock, storeVars, api, redisKeys, rateLimit, httpVars, input, result, histVars>>

\* History: the scripts Redis ran since the last change of timestamp.  The first
\* of them ran at clock `at` and loaded tokens0 and last; n of them ran, ok were
\* allowed.
NoBatch == [now |-> 0, at |-> 0, tokens0 |-> 0, last |-> 0, n |-> 0, ok |-> 0]

NextBatch(r) ==
    LET key == input[r].Key
        tk == tokensKey[key]
        lk == lastRefillKey[key]
        s == TokenBucketScript(tk, lk, input[r].Limit, input[r].Window, now[r])
    IN  IF batch.n > 0 /\ batch.now = now[r]
        THEN [batch EXCEPT !.n = @ + 1, !.ok = @ + s.reply[1]]
        ELSE [now |-> now[r],
              at |-> clock,
              tokens0 |-> IF Exists(tk) THEN tk.val ELSE input[r].Limit * TokenUnits,
              last |-> IF Exists(lk) THEN lk.val ELSE now[r],
              n |-> 1, ok |-> s.reply[1]]

\* Redis runs the caller's script atomically; the caller parses the reply,
\* and Execute goes on to step 4 or returns the allowed output.
RunTokenBucketScript(r) ==
    /\ pc[r] = "script"
    /\ LET key == input[r].Key
           s == TokenBucketScript(tokensKey[key], lastRefillKey[key],
                                  input[r].Limit, input[r].Window, now[r])
           res == CheckResult(s.reply, input[r].Limit)
       IN  /\ tokensKey' = [tokensKey EXCEPT ![key] = s.tokensKey]
           /\ lastRefillKey' = [lastRefillKey EXCEPT ![key] = s.lastRefillKey]
           /\ result' = [result EXCEPT ![r] = res]
           /\ IF CallsExecute(r)
              THEN IF res.Allowed
                   THEN /\ out' = [out EXCEPT ![r] = createAllowedOutput(res)]
                        /\ pc' = [pc EXCEPT ![r] = "done"]
                   ELSE /\ pc' = [pc EXCEPT ![r] = "setblock"]
                        /\ UNCHANGED out
              ELSE /\ pc' = [pc EXCEPT ![r] = "done"]
                   /\ UNCHANGED out
    /\ lastRun' = r
    /\ batch' = NextBatch(r)
    /\ UNCHANGED <<clock, blockedKey, api, redisKeys, rateLimit, httpVars, input, now, calls, lastJE, lastSet>>

\* Execute, step 4: the bucket denied the request; block the key.
ExecuteSetBlock(r) ==
    /\ CallsExecute(r)
    /\ pc[r] = "setblock"
    /\ calls' = [calls EXCEPT ![r] = Append(@, "SetBlock")]
    /\ pc' = [pc EXCEPT ![r] = "done"]
    /\ IF input[r].BlockTime <= 0
       THEN /\ out' = [out EXCEPT ![r] = Propagate("block time must be positive")]
            /\ UNCHANGED <<blockedKey, lastJE, lastSet>>
       ELSE /\ blockedKey' = SetBlock(input[r].Key, input[r].BlockTime)
            /\ out' = [out EXCEPT ![r] = createRateLimitExceededOutput(result[r])]
            /\ lastJE' = clock
            /\ lastSet' = [lastSet EXCEPT ![input[r].Key] =
                              LatestSet(input[r].Key, input[r].BlockTime)]
    /\ UNCHANGED <<clock, tokensKey, lastRefillKey, api, redisKeys, rateLimit, httpVars, input, now, result,
                   lastRun, batch>>

\* Time passes: the clock advances by d ticks.
Advance(d) ==
    /\ clock' = clock + d
    /\ UNCHANGED <<storeVars, api, redisKeys, rateLimit, httpVars, input, pc, now, result, out, calls, histVars>>

Tick == clock < MaxClock /\ Advance(1)

TickSecond == clock < MaxSeconds * TicksPerSec /\ Advance(TicksPerSec)

\* A stored bucket is left idle, no call in flight, for the time to live of
\* its keys.
IdleTTL ==
    /\ clock < MaxSeconds * TicksPerSec
    /\ \E k \in Identities : Exists(tokensKey[k])
    /\ \A r \in Requests : pc[r] # "script"
    /\ Advance(BucketTTLSeconds * TicksPerSec)

\* ---------------------------------------------------------- specifications

Policies ==
    [Limit : Capacities, Window : Windows, BlockTime : BlockTimes]

InputOf(key, p) ==
    [Key |-> key, Limit |-> p.Limit, Window |-> p.Window, BlockTime |-> p.BlockTime]

InitCommon ==
    /\ clock = 0
    /\ tokensKey = [k \in Identities |-> NoKey]
    /\ lastRefillKey = [k \in Identities |-> NoKey]
    /\ blockedKey = [k \in Identities |-> NoKey]
    /\ pc = [r \in Requests |-> "start"]
    /\ now = [r \in Requests |-> 0]
    /\ result = [r \in Requests |-> NoResult]
    /\ out = [r \in Requests |-> Pending]
    /\ calls = [r \in Requests |-> <<>>]
    /\ lastJE = -1
    /\ lastSet = [k \in Identities |-> NeverSet]
    /\ lastRun = 0
    /\ redisKeys = [r \in Requests |-> NoKeys]
    /\ batch = NoBatch

\* Concurrent Execute calls on one identity under one policy.
Init ==
    /\ InitCommon
    /\ api = [r \in Requests |-> "Execute"]
    /\ req = [r \in Requests |-> NoRequest]
    /\ resp = [r \in Requests |-> NoResponse]
    /\ config = DefaultConfig
    /\ rateLimit = NoRateLimit
    /\ \E p \in Policies : input = [r \in Requests |-> InputOf(IpA, p)]

Next ==
    \/ \E r \in Requests : ExecuteIsBlocked(r)
    \/ \E r \in Requests : CheckAndConsumeNow(r)
    \/ \E r \in Requests : RunTokenBucketScript(r)
    \/ \E r \in Requests : ExecuteSetBlock(r)
    \/ Tick

Spec == Init /\ [][Next]_vars

\* Concurrent CheckAndConsume calls made directly on the storage, which reads
\* no block time.
InitStore ==
    /\ InitCommon
    /\ api = [r \in Requests |-> "CheckAndConsume"]
    /\ req = [r \in Requests |-> NoRequest]
    /\ resp = [r \in Requests |-> NoResponse]
    /\ config = DefaultConfig
    /\ rateLimit = NoRateLimit
    /\ \E p \in Policies :
          /\ p.BlockTime = 0
          /\ input = [r \in Requests |-> InputOf(IpA, p)]

NextStore ==
    \/ \E r \in Requests : CheckAndConsumeNow(r)
    \/ \E r \in Requests : RunTokenBucketScript(r)
    \/ TickSecond
    \/ IdleTTL

SpecStore == InitStore /\ [][NextStore]_vars

\* One caller at a time, as in the storage's integration tests: a call begins
\* and time passes only while no other call is in flight.
NoCallInFlight == \A q \in Requests : pc[q] \notin {"check", "script", "setblock"}

SeqCheckAndConsumeNow(r) == NoCallInFlight /\ CheckAndConsumeNow(r)

\* time.Sleep of half a second between two calls.
SeqTick == NoCallInFlight /\ Tick

InitRefill == InitStore

NextRefill ==
    \/ \E r \in Requests : SeqCheckAndConsumeNow(r)
    \/ \E r \in Requests : RunTokenBucketScript(r)
    \/ SeqTick

SpecRefill == InitRefill /\ [][NextRefill]_vars

\* A whole second passes between two calls.
SeqTickSecond == NoCallInFlight /\ TickSecond

\* One caller at a time on the storage, with whole seconds between the calls.
NextSeconds ==
    \/ \E r \in Requests : SeqCheckAndConsumeNow(r)
    \/ \E r \in Requests : RunTokenBucketScript(r)
    \/ SeqTickSecond

SpecSeconds == InitStore /\ [][NextSeconds]_vars

\* The tokens of a RateLimit are counted in 1/EntityUnits: the least unit in
\* which one tick of refill, limit / window in ticks, is whole for every window.
EntityUnits == TokenUnits * TicksPerSec

\* NewRateLimit: a full bucket, last refilled at time.Now().
NewRateLimit(limit, window) ==
    [Limit |-> limit, Window |-> window, CurrentTokens |-> limit * EntityUnits,
     LastRefill |-> clock, err |-> ""]

\* RateLimit.CanConsume: r.CurrentTokens >= 1
RateLimitCanConsume(rl) == rl.CurrentTokens >= EntityUnits

\* What RateLimit.ConsumeToken makes of a RateLimit: ErrRateLimitExceeded
\* and no change of the bucket below one token, otherwise one token less.
AfterConsumeToken(rl) ==
    IF ~RateLimitCanConsume(rl)
    THEN [rl EXCEPT !.err = "ErrRateLimitExceeded"]
    ELSE [rl EXCEPT !.CurrentTokens = @ - EntityUnits, !.err = "nil"]

\* A call of RateLimit.ConsumeToken.
ConsumeToken ==
    /\ rateLimit' = AfterConsumeToken(rateLimit)
    /\ UNCHANGED <<clock, storeVars, api, redisKeys, httpVars, input, pc, now, result, out,
                   calls, histVars>>

\* The storage called by one caller at a time with half seconds between the
\* calls, next to a RateLimit of any token count that ConsumeToken is called on.
InitConsume ==
    /\ InitCommon
    /\ api = [r \in Requests |-> "CheckAndConsume"]
    /\ req = [r \in Requests |-> NoRequest]
    /\ resp = [r \in Requests |-> NoResponse]
    /\ config = DefaultConfig
    /\ \E p \in Policies :
          /\ p.BlockTime = 0
          /\ input = [r \in Requests |-> InputOf(IpA, p)]
          /\ \E t \in 0 .. p.Limit * EntityUnits :
                rateLimit = [NewRateLimit(p.Limit, p.Window) EXCEPT !.CurrentTokens = t]

NextConsume ==
    \/ \E r \in Requests : SeqCheckAndConsumeNow(r)
    \/ \E r \in Requests : RunTokenBucketScript(r)
    \/ SeqTick
    \/ ConsumeToken

SpecConsume == InitConsume /\ [][NextConsume]_vars

\* RateLimit.RefillTokens(now): elapsed is the time from LastRefill to now,
\* fractions of a second included; elapsed * limit / window tokens are added
\* up to the limit, and LastRefill becomes now.
RefillTokens(rl, nowTime) ==
    LET elapsed == nowTime - rl.LastRefill
        tokensToAdd == (elapsed * rl.Limit * EntityUnits) \div rl.Window
    IN  [rl EXCEPT !.CurrentTokens = Min(rl.Limit * EntityUnits, @ + tokensToAdd),
                   !.LastRefill = nowTime]

\* The call the storage has just answered is replayed on the RateLimit of the
\* same identity and policy: RefillTokens with the time.Now() of the call,
\* then ConsumeToken.
EntityRefillAndConsume(r) ==
    /\ api[r] = "CheckAndConsume"
    /\ pc[r] = "done"
    /\ result[r].set
    /\ pc' = [pc EXCEPT ![r] = "replayed"]
    /\ rateLimit' = AfterConsumeToken(RefillTokens(rateLimit, clock))
    /\ UNCHANGED <<clock, storeVars, api, redisKeys, httpVars, input, now, result, out,
                   calls, histVars>>

\* No call is in flight and every answered call has been replayed.
InStep == \A q \in Requests : pc[q] \in {"start", "replayed"}

\* NewRateLimit: a full bucket, created at the start, next to the storage
\* with no key of the identity.
InitReplay ==
    /\ InitCommon
    /\ api = [r \in Requests |-> "CheckAndConsume"]
    /\ req = [r \in Requests |-> NoRequest]
    /\ resp = [r \in Requests |-> NoResponse]
    /\ config = DefaultConfig
    /\ \E p \in Policies :
          /\ p.BlockTime = 0
          /\ input = [r \in Requests |-> InputOf(IpA, p)]
          /\ rateLimit = NewRateLimit(p.Limit, p.Window)

\* The next call begins once the one before it has been replayed.
ReplayCheckAndConsumeNow(r) == InStep /\ CheckAndConsumeNow(r)

\* time.Sleep of half a second between two calls.
ReplaySleep ==
    /\ InStep
    /\ clock < MaxSeconds * TicksPerSec
    /\ Advance(1)

NextReplay ==
    \/ \E r \in Requests : ReplayCheckAndConsumeNow(r)
    \/ \E r \in Requests : RunTokenBucketScript(r)
    \/ \E r \in Requests : EntityRefillAndConsume(r)
    \/ ReplaySleep

SpecReplay == InitReplay /\ [][NextReplay]_vars

\* Calls made directly on the storage's block flag, as in its integration
\* tests.  A storage call returns (bool, error); the bool is kept in Blocked.
Returns(b) == [Pending EXCEPT !.ret = "ok", !.Blocked = b]

\* Mutant: SetBlock sends SET whatever the block time.
SetBlockCall_NoGuard(r) ==
    /\ api[r] = "SetBlock"
    /\ pc[r] = "start"
    /\ calls' = [calls EXCEPT ![r] = Append(@, "SetBlock")]
    /\ pc' = [pc EXCEPT ![r] = "done"]
    /\ blockedKey' = SetBlock(input[r].Key, input[r].BlockTime)
    /\ out' = [out EXCEPT ![r] = Returns(FALSE)]
    /\ lastSet' = [lastSet EXCEPT ![input[r].Key] =
                      LatestSet(input[r].Key, input[r].BlockTime)]
    /\ UNCHANGED <<clock, tokensKey, lastRefillKey, api, redisKeys, rateLimit, httpVars, input, now, result,
                   lastJE, lastRun, batch>>

\* RedisStorage.SetBlock called directly.
SetBlockCall(r) ==
    /\ api[r] = "SetBlock"
    /\ pc[r] = "start"
    /\ calls' = [calls EXCEPT ![r] = Append(@, "SetBlock")]
    /\ pc' = [pc EXCEPT ![r] = "done"]
    /\ IF input[r].BlockTime <= 0
       THEN /\ out' = [out EXCEPT ![r] = Error("block time must be positive")]
            /\ UNCHANGED <<blockedKey, lastSet>>
       ELSE /\ blockedKey' = SetBlock(input[r].Key, input[r].BlockTime)
            /\ out' = [out EXCEPT ![r] = Returns(FALSE)]
            /\ lastSet' = [lastSet EXCEPT ![input[r].Key] =
                              LatestSet(input[r].Key, input[r].BlockTime)]
    /\ UNCHANGED <<clock, tokensKey, lastRefillKey, api, redisKeys, rateLimit, httpVars, input, now, result,
                   lastJE, lastRun, batch>>

\* RedisStorage.IsBlocked called directly.
IsBlockedCall(r) ==
    /\ api[r] = "IsBlocked"
    /\ pc[r] = "start"
    /\ calls' = [calls EXCEPT ![r] = Append(@, "IsBlocked")]
    /\ pc' = [pc EXCEPT ![r] = "done"]
    /\ out' = [out EXCEPT ![r] = Returns(IsBlocked(input[r].Key))]
    /\ UNCHANGED <<clock, storeVars, api, redisKeys, rateLimit, httpVars, input, now, result, histVars>>

\* The storage calls of the block-flag specification: SetBlock with every
\* block time on the IP key and with the longest on the token key, IsBlocked
\* on the IP key, CheckAndConsume on both.
FlagCalls ==
    [i \in 1 .. (MaxBlockTicks + 1) |-> [api |-> "SetBlock", key |-> IpA, bt |-> i - 1]]
        \o << [api |-> "SetBlock", key |-> TokA, bt |-> MaxBlockTicks],
              [api |-> "IsBlocked", key |-> IpA, bt |-> 0],
              [api |-> "CheckAndConsume", key |-> IpA, bt |-> 0],
              [api |-> "CheckAndConsume", key |-> TokA, bt |-> 0] >>

\* The callers are interchangeable: they take their calls in the order of
\* FlagCalls, and run them in any order.
InitFlags ==
    /\ InitCommon
    /\ \E c \in [Requests -> 1 .. Len(FlagCalls)] :
          /\ \A r, q \in Requests : r <= q => c[r] <= c[q]
          /\ api = [r \in Requests |-> FlagCalls[c[r]].api]
          /\ req = [r \in Requests |-> NoRequest]
          /\ resp = [r \in Requests |-> NoResponse]
          /\ config = DefaultConfig
          /\ rateLimit = NoRateLimit
          /\ input = [r \in Requests |->
                         [Key |-> FlagCalls[c[r]].key, Limit |-> 1,
                          Window |-> TicksPerSec, BlockTime |-> FlagCalls[c[r]].bt]]

NextFlags ==
    \/ \E r \in Requests : SetBlockCall(r)
    \/ \E r \in Requests : IsBlockedCall(r)
    \/ \E r \in Requests : CheckAndConsumeNow(r)
    \/ \E r \in Requests : RunTokenBucketScript(r)
    \/ Tick

SpecFlags == InitFlags /\ [][NextFlags]_vars

\* Storage calls with arguments the storage rejects, next to ones it accepts.
GuardCalls ==
    << [api |-> "CheckAndConsume", limit |-> 1, window |-> TicksPerSec, bt |-> 0],
       [api |-> "CheckAndConsume", limit |-> 0, window |-> TicksPerSec, bt |-> 0],
       [api |-> "CheckAndConsume", limit |-> -1, window |-> TicksPerSec, bt |-> 0],
       [api |-> "CheckAndConsume", limit |-> 1, window |-> 0, bt |-> 0],
       [api |-> "CheckAndConsume", limit |-> 1, window |-> -TicksPerSec, bt |-> 0],
       [api |-> "SetBlock", limit |-> 1, window |-> TicksPerSec, bt |-> MaxBlockTicks],
       [api |-> "SetBlock", limit |-> 1, window |-> TicksPerSec, bt |-> 0],
       [api |-> "SetBlock", limit |-> 1, window |-> TicksPerSec, bt |-> -1] >>

\* The callers are interchangeable: they take their calls in the order of
\* GuardCalls, all on one key, and run them in any order.
InitGuards ==
    /\ InitCommon
    /\ \E c \in [Requests -> 1 .. Len(GuardCalls)] :
          /\ \A r, q \in Requests : r <= q => c[r] <= c[q]
          /\ api = [r \in Requests |-> GuardCalls[c[r]].api]
          /\ req = [r \in Requests |-> NoRequest]
          /\ resp = [r \in Requests |-> NoResponse]
          /\ config = DefaultConfig
          /\ rateLimit = NoRateLimit
          /\ input = [r \in Requests |->
                         [Key |-> IpA, Limit |-> GuardCalls[c[r]].limit,
                          Window |-> GuardCalls[c[r]].window,
                          BlockTime |-> GuardCalls[c[r]].bt]]

NextGuards ==
    \/ \E r \in Requests : SetBlockCall(r)
    \/ \E r \in Requests : CheckAndConsumeNow(r)
    \/ \E r \in Requests : RunTokenBucketScript(r)
    \/ Tick

SpecGuards == InitGuards /\ [][NextGuards]_vars

\* Execute called with inputs that Validate rejects, next to one it accepts.
ValidInput ==
    [Key |-> IpA, Limit |-> 1, Window |-> TicksPerSec, BlockTime |-> MaxBlockTicks]

ExecuteInputs ==
    << ValidInput,
       [ValidInput EXCEPT !.Key = [Type |-> KeyTypeIP, Value |-> ""]],
       [ValidInput EXCEPT !.Key = [Type |-> "", Value |-> "192.168.1.1"]],
       [ValidInput EXCEPT !.Limit = 0],
       [ValidInput EXCEPT !.Limit = -1],
       [ValidInput EXCEPT !.Window = 0],
       [ValidInput EXCEPT !.Window = -TicksPerSec],
       [ValidInput EXCEPT !.BlockTime = -1],
       [ValidInput EXCEPT !.BlockTime = 0] >>

\* The callers are interchangeable: they take their inputs in the order of
\* ExecuteInputs, and run in any order.
InitValidate ==
    /\ InitCommon
    /\ api = [r \in Requests |-> "Execute"]
    /\ req = [r \in Requests |-> NoRequest]
    /\ resp = [r \in Requests |-> NoResponse]
    /\ config = DefaultConfig
    /\ rateLimit = NoRateLimit
    /\ \E c \in [Requests -> 1 .. Len(ExecuteInputs)] :
          /\ \A r, q \in Requests : r <= q => c[r] <= c[q]
          /\ input = [r \in Requests |-> ExecuteInputs[c[r]]]

NextValidate ==
    \/ \E r \in Requests : ExecuteIsBlocked(r)
    \/ \E r \in Requests : CheckAndConsumeNow(r)
    \/ \E r \in Requests : RunTokenBucketScript(r)
    \/ \E r \in Requests : ExecuteSetBlock(r)

SpecValidate == InitValidate /\ [][NextValidate]_vars

\* Redis fails (connection, timeout): the command has no effect and the
\* storage returns an error, which Execute returns.

\* Execute, step 2, when IsBlocked fails.
ExecuteIsBlockedFails(r) ==
    /\ CallsExecute(r)
    /\ pc[r] = "start"
    /\ Validate(input[r]) = ""
    /\ calls' = [calls EXCEPT ![r] = Append(@, "IsBlocked")]
    /\ out' = [out EXCEPT ![r] = Propagate(ErrIsBlocked)]
    /\ pc' = [pc EXCEPT ![r] = "done"]
    /\ UNCHANGED <<clock, storeVars, api, redisKeys, rateLimit, httpVars, input, now, result, histVars>>

\* Execute, step 3, when the script call fails.
ExecuteCheckAndConsumeFails(r) ==
    /\ CallsExecute(r)
    /\ pc[r] = "script"
    /\ out' = [out EXCEPT ![r] = Propagate(ErrCheckAndConsume)]
    /\ pc' = [pc EXCEPT ![r] = "done"]
    /\ UNCHANGED <<clock, storeVars, api, redisKeys, rateLimit, httpVars, input, now, result, calls, histVars>>

\* Mutant: a failed SetBlock is tried once more before the error is returned.
ExecuteSetBlockFails_RetriesOnce(r) ==
    /\ CallsExecute(r)
    /\ pc[r] = "setblock"
    /\ calls' = [calls EXCEPT ![r] = Append(Append(@, "SetBlock"), "SetBlock")]
    /\ out' = [out EXCEPT ![r] = Propagate(ErrSetBlock)]
    /\ pc' = [pc EXCEPT ![r] = "done"]
    /\ UNCHANGED <<clock, storeVars, api, redisKeys, rateLimit, httpVars, input, now, result, histVars>>

\* Execute, step 4, when SetBlock fails.
ExecuteSetBlockFails(r) ==
    /\ CallsExecute(r)
    /\ pc[r] = "setblock"
    /\ calls' = [calls EXCEPT ![r] = Append(@, "SetBlock")]
    /\ out' = [out EXCEPT ![r] = Propagate(ErrSetBlock)]
    /\ pc' = [pc EXCEPT ![r] = "done"]
    /\ UNCHANGED <<clock, storeVars, api, redisKeys, rateLimit, httpVars, input, now, result, histVars>>

\* Concurrent Execute calls on one identity of capacity 1 per second over a
\* Redis that may fail.
InitFaulty ==
    /\ InitCommon
    /\ api = [r \in Requests |-> "Execute"]
    /\ req = [r \in Requests |-> NoRequest]
    /\ resp = [r \in Requests |-> NoResponse]
    /\ config = DefaultConfig
    /\ rateLimit = NoRateLimit
    /\ \E p \in Policies :
          /\ p.Limit = 1
          /\ p.Window = TicksPerSec
          /\ input = [r \in Requests |-> InputOf(IpA, p)]

NextFaulty ==
    \/ \E r \in Requests : ExecuteIsBlocked(r)
    \/ \E r \in Requests : ExecuteIsBlockedFails(r)
    \/ \E r \in Requests : CheckAndConsumeNow(r)
    \/ \E r \in Requests : RunTokenBucketScript(r)
    \/ \E r \in Requests : ExecuteCheckAndConsumeFails(r)
    \/ \E r \in Requests : ExecuteSetBlock(r)
    \/ \E r \in Requests : ExecuteSetBlockFails(r)
    \/ Tick

SpecFaulty == InitFaulty /\ [][NextFaulty]_vars

\* The steps of one caller's Execute, whether its store calls succeed or fail.
ExecuteStep(r) ==
    \/ ExecuteIsBlocked(r)
    \/ ExecuteIsBlockedFails(r)
    \/ CheckAndConsumeNow(r)
    \/ RunTokenBucketScript(r)
    \/ ExecuteCheckAndConsumeFails(r)
    \/ ExecuteSetBlock(r)
    \/ ExecuteSetBlockFails(r)

\* Time passes while no call to Redis is in flight.
NextFaultyLive ==
    \/ \E r \in Requests : ExecuteStep(r)
    \/ SeqTick

\* While an Execute has a step to take, some goroutine is scheduled and the
\* call to Redis it waits for returns, with a reply or with an error.
SpecFaultyLive ==
    /\ InitFaulty
    /\ [][NextFaultyLive]_vars
    /\ WF_vars(\E r \in Requests : ExecuteStep(r))

\* ------------------------------------------------------------ middleware

\* The configuration the middleware reads: the IP policy, and the registry of
\* token policies keyed by the token value.
GetIPLimit == config.IPLimit

GetIPWindow == config.IPWindow

GetIPBlockTime == config.IPBlockTime

TokenConfigs == config.TokenConfigs

\* configAdapter.GetTokenConfig: an exact lookup of the header's value.
GetTokenConfig(token) ==
    IF token \in DOMAIN TokenConfigs
    THEN [config |-> TokenConfigs[token], exists |-> TRUE]
    ELSE [config |-> [Limit |-> 0, Window |-> 0, BlockTime |-> 0], exists |-> FALSE]

\* Mutant: a registered key selects the token identity but keeps the IP policy.
buildRateLimitInput_IPPolicy(ip, apiKey) ==
    [Key |-> IF apiKey # "" /\ GetTokenConfig(apiKey).exists
             THEN NewTokenKey(apiKey) ELSE NewIPKey(ip),
     Limit |-> GetIPLimit, Window |-> GetIPWindow, BlockTime |-> GetIPBlockTime]

\* Mutant: a registered key selects the token policy for the client's IP identity.
buildRateLimitInput_IPKey(ip, apiKey) ==
    IF apiKey # "" /\ GetTokenConfig(apiKey).exists
    THEN InputOf(NewIPKey(ip), GetTokenConfig(apiKey).config)
    ELSE [Key |-> NewIPKey(ip), Limit |-> GetIPLimit, Window |-> GetIPWindow,
          BlockTime |-> GetIPBlockTime]

\* Mutant: an API key the registry does not hold is limited as a token of
\* its own under the IP policy.
buildRateLimitInput_UnknownAsToken(ip, apiKey) ==
    IF apiKey # "" /\ GetTokenConfig(apiKey).exists
    THEN InputOf(NewTokenKey(apiKey), GetTokenConfig(apiKey).config)
    ELSE [Key |-> IF apiKey # "" THEN NewTokenKey(apiKey) ELSE NewIPKey(ip),
          Limit |-> GetIPLimit, Window |-> GetIPWindow, BlockTime |-> GetIPBlockTime]

\* RateLimiterMiddleware.buildRateLimitInput: token before IP.
buildRateLimitInput(ip, apiKey) ==
    IF apiKey # "" /\ GetTokenConfig(apiKey).exists
    THEN [Key |-> NewTokenKey(apiKey),
          Limit |-> GetTokenConfig(apiKey).config.Limit,
          Window |-> GetTokenConfig(apiKey).config.Window,
          BlockTime |-> GetTokenConfig(apiKey).config.BlockTime]
    ELSE [Key |-> NewIPKey(ip), Limit |-> GetIPLimit, Window |-> GetIPWindow,
          BlockTime |-> GetIPBlockTime]

sendInternalServerError ==
    [NoResponse EXCEPT !.status = 500, !.error = "Internal Server Error"]

\* Mutant: the 429 body carries a message of the middleware's own.
sendRateLimitExceeded_OwnMessage(message) ==
    [NoResponse EXCEPT !.status = 429, !.message = "Too Many Requests"]

sendRateLimitExceeded(message) ==
    [NoResponse EXCEPT !.status = 429, !.message = message]

\* Handle, steps 1 to 3: the client IP and the API_KEY header give the input
\* that step 4 hands to Execute.
HandleBuildInput(r) ==
    /\ api[r] = "Handle"
    /\ pc[r] = "http"
    /\ input' = [input EXCEPT ![r] = buildRateLimitInput(req[r].ip, req[r].apiKey)]
    /\ pc' = [pc EXCEPT ![r] = "start"]
    /\ UNCHANGED <<clock, storeVars, api, redisKeys, rateLimit, httpVars, now, result, out, calls, histVars>>

\* Mutant: the next handler runs after a denial has been answered.
HandleRespond_NoReturn(r) ==
    /\ api[r] = "Handle"
    /\ pc[r] = "done"
    /\ resp' = [resp EXCEPT ![r] =
                   IF out[r].ret = "err" THEN sendInternalServerError
                   ELSE IF ~out[r].Allowed
                        THEN [status |-> 429, message |-> out[r].Message,
                              error |-> "", next |-> 1]
                   ELSE [@ EXCEPT !.next = @ + 1]]
    /\ pc' = [pc EXCEPT ![r] = "responded"]
    /\ UNCHANGED <<clock, storeVars, api, redisKeys, rateLimit, req, config, input, now, result, out, calls,
                   histVars>>

\* Handle, steps 5 and 6, once Execute has returned: 500 on an error, 429 on
\* a denial, the next handler otherwise.
HandleRespond(r) ==
    /\ api[r] = "Handle"
    /\ pc[r] = "done"
    /\ resp' = [resp EXCEPT ![r] =
                   IF out[r].ret = "err" THEN sendInternalServerError
                   ELSE IF ~out[r].Allowed THEN sendRateLimitExceeded(out[r].Message)
                   ELSE [@ EXCEPT !.next = @ + 1]]
    /\ pc' = [pc EXCEPT ![r] = "responded"]
    /\ UNCHANGED <<clock, storeVars, api, redisKeys, rateLimit, req, config, input, now, result, out, calls,
                   histVars>>

\* The requests of one client: without an API key, with an unregistered key,
\* with the registered key.
ClientIP == "192.168.1.1"

HTTPRequests ==
    << [ip |-> ClientIP, apiKey |-> ""],
       [ip |-> ClientIP, apiKey |-> "unknown"],
       [ip |-> ClientIP, apiKey |-> "abc123"] >>

\* Input{}: the input of a request the middleware has not looked at yet.
ZeroInput ==
    [Key |-> [Type |-> "", Value |-> ""], Limit |-> 0, Window |-> 0, BlockTime |-> 0]

\* Requests arriving at the middleware of a server with empty Redis; callers
\* are interchangeable, so each takes a request no earlier in HTTPRequests
\* than the caller before it.
InitHTTP ==
    /\ clock = 0
    /\ tokensKey = [k \in Identities |-> NoKey]
    /\ lastRefillKey = [k \in Identities |-> NoKey]
    /\ blockedKey = [k \in Identities |-> NoKey]
    /\ api = [r \in Requests |-> "Handle"]
    /\ \E c \in [Requests -> 1 .. Len(HTTPRequests)] :
          /\ \A r, q \in Requests : r <= q => c[r] <= c[q]
          /\ req = [r \in Requests |-> HTTPRequests[c[r]]]
    /\ resp = [r \in Requests |-> NoResponse]
    /\ config = DefaultConfig
    /\ rateLimit = NoRateLimit
    /\ input = [r \in Requests |-> ZeroInput]
    /\ pc = [r \in Requests |-> "http"]
    /\ now = [r \in Requests |-> 0]
    /\ result = [r \in Requests |-> NoResult]
    /\ out = [r \in Requests |-> Pending]
    /\ calls = [r \in Requests |-> <<>>]
    /\ lastJE = -1
    /\ lastSet = [k \in Identities |-> NeverSet]
    /\ lastRun = 0
    /\ redisKeys = [r \in Requests |-> NoKeys]
    /\ batch = NoBatch

\* Time passes while no request is inside the middleware.
BetweenRequests ==
    /\ \A r \in Requests : pc[r] \in {"http", "responded"}
    /\ Tick

NextHTTP ==
    \/ \E r \in Requests : HandleBuildInput(r)
    \/ \E r \in Requests : ExecuteIsBlocked(r)
    \/ \E r \in Requests : CheckAndConsumeNow(r)
    \/ \E r \in Requests : RunTokenBucketScript(r)
    \/ \E r \in Requests : ExecuteSetBlock(r)
    \/ \E r \in Requests : HandleRespond(r)
    \/ BetweenRequests

SpecHTTP == InitHTTP /\ [][NextHTTP]_vars

\* Requests of one client without an API key and with keys the registry does
\* not hold: an unknown one, and the registered one in another case.
MixRequests ==
    << [ip |-> ClientIP, apiKey |-> ""],
       [ip |-> ClientIP, apiKey |-> "unknown"],
       [ip |-> ClientIP, apiKey |-> "ABC123"] >>

\* The identities Redis may hold keys for, were an API key of MixRequests
\* taken for a token.
MixIdentities ==
    Identities \cup {NewTokenKey(MixRequests[c].apiKey) : c \in 2 .. Len(MixRequests)}

\* The requests arrive at a server whose IP policy lets all but one of them
\* pass; the clock does not advance.
InitMix ==
    /\ clock = 0
    /\ tokensKey = [k \in MixIdentities |-> NoKey]
    /\ lastRefillKey = [k \in MixIdentities |-> NoKey]
    /\ blockedKey = [k \in MixIdentities |-> NoKey]
    /\ api = [r \in Requests |-> "Handle"]
    /\ \E c \in [Requests -> 1 .. Len(MixRequests)] :
          /\ \A r, q \in Requests : r <= q => c[r] <= c[q]
          /\ req = [r \in Requests |-> MixRequests[c[r]]]
    /\ resp = [r \in Requests |-> NoResponse]
    /\ config = [DefaultConfig EXCEPT !.IPLimit = NumRequests - 1]
    /\ rateLimit = NoRateLimit
    /\ input = [r \in Requests |-> ZeroInput]
    /\ pc = [r \in Requests |-> "http"]
    /\ now = [r \in Requests |-> 0]
    /\ result = [r \in Requests |-> NoResult]
    /\ out = [r \in Requests |-> Pending]
    /\ calls = [r \in Requests |-> <<>>]
    /\ lastJE = -1
    /\ lastSet = [k \in MixIdentities |-> NeverSet]
    /\ lastRun = 0
    /\ redisKeys = [r \in Requests |-> NoKeys]
    /\ batch = NoBatch

NextMix ==
    \/ \E r \in Requests : HandleBuildInput(r)
    \/ \E r \in Requests : ExecuteIsBlocked(r)
    \/ \E r \in Requests : CheckAndConsumeNow(r)
    \/ \E r \in Requests : RunTokenBucketScript(r)
    \/ \E r \in Requests : ExecuteSetBlock(r)
    \/ \E r \in Requests : HandleRespond(r)

SpecMix == InitMix /\ [][NextMix]_vars

\* Requests to a gateway whose Redis may fail: of a client without a key, of
\* a connection whose address gives no client IP, and with the registered key.
GatewayRequests ==
    << [ip |-> ClientIP, apiKey |-> ""],
       [ip |-> "", apiKey |-> ""],
       [ip |-> ClientIP, apiKey |-> "abc123"] >>

\* The IP policy is loaded with or without a block time.
InitGateway ==
    /\ clock = 0
    /\ tokensKey = [k \in Identities |-> NoKey]
    /\ lastRefillKey = [k \in Identities |-> NoKey]
    /\ blockedKey = [k \in Identities |-> NoKey]
    /\ pc = [r \in Requests |-> "http"]
    /\ now = [r \in Requests |-> 0]
    /\ result = [r \in Requests |-> NoResult]
    /\ out = [r \in Requests |-> Pending]
    /\ calls = [r \in Requests |-> <<>>]
    /\ lastJE = -1
    /\ lastSet = [k \in Identities |-> NeverSet]
    /\ lastRun = 0
    /\ redisKeys = [r \in Requests |-> NoKeys]
    /\ batch = NoBatch
    /\ api = [r \in Requests |-> "Handle"]
    /\ \E c \in [Requests -> 1 .. Len(GatewayRequests)] :
          /\ \A r, q \in Requests : r <= q => c[r] <= c[q]
          /\ req = [r \in Requests |-> GatewayRequests[c[r]]]
    /\ resp = [r \in Requests |-> NoResponse]
    /\ \E bt \in BlockTimes : config = [DefaultConfig EXCEPT !.IPBlockTime = bt]
    /\ rateLimit = NoRateLimit
    /\ input = [r \in Requests |-> ZeroInput]

NextGateway ==
    \/ \E r \in Requests : HandleBuildInput(r)
    \/ \E r \in Requests : ExecuteIsBlocked(r)
    \/ \E r \in Requests : ExecuteIsBlockedFails(r)
    \/ \E r \in Requests : CheckAndConsumeNow(r)
    \/ \E r \in Requests : RunTokenBucketScript(r)
    \/ \E r \in Requests : ExecuteCheckAndConsumeFails(r)
    \/ \E r \in Requests : ExecuteSetBlock(r)
    \/ \E r \in Requests : ExecuteSetBlockFails(r)
    \/ \E r \in Requests : HandleRespond(r)

SpecGateway == InitGateway /\ [][NextGateway]_vars

\* ------------------------------------------------------------- extractIP

\* Header values and addresses are strings of characters here, so that the
\* splitting, the trimming and the search of the last colon are carried out.
SeqsUpTo(S, n) == UNION {[1 .. k -> S] : k \in 0 .. n}

\* strings.Split(s, ",")[0]
FirstEntry(s) ==
    LET commas == {i \in 1 .. Len(s) : s[i] = ","}
    IN  IF commas = {} THEN s
        ELSE SubSeq(s, 1, (CHOOSE i \in commas : \A j \in commas : i <= j) - 1)

\* unicode.IsSpace: the 25 code points of the Unicode White_Space property.
\* In Latin-1 these are \t, \n, \v, \f, \r, space, U+0085 and U+00A0; beyond
\* it U+1680, U+2000 to U+200A, U+2028, U+2029, U+202F, U+205F and U+3000.
\* The ones that a string of this language cannot hold are written by name.
WhiteSpace ==
    {" ", "\t", "\n", "\r", "\f", "\\v", "U+0085", "U+00A0",
     "U+1680",
     "U+2000", "U+2001", "U+2002", "U+2003", "U+2004", "U+2005",
     "U+2006", "U+2007", "U+2008", "U+2009", "U+200A",
     "U+2028", "U+2029", "U+202F", "U+205F", "U+3000"}

\* strings.TrimSpace: leading and trailing white space is cut off
TrimSpace(s) ==
    LET inked == {i \in 1 .. Len(s) : s[i] \notin WhiteSpace}
    IN  IF inked = {} THEN <<>>
        ELSE SubSeq(s, CHOOSE i \in inked : \A j \in inked : i <= j,
                       CHOOSE i \in inked : \A j \in inked : i >= j)

\* strings.LastIndex(s, ":"), counted from 1; 0 when there is none
LastIndex(s) ==
    LET colons == {i \in 1 .. Len(s) : s[i] = ":"}
    IN  IF colons = {} THEN 0 ELSE CHOOSE i \in colons : \A j \in colons : i >= j

\* extractIP: X-Forwarded-For, then X-Real-IP, then RemoteAddr without port
extractIP(r) ==
    IF r.forwardedFor # <<>>
    THEN TrimSpace(FirstEntry(r.forwardedFor))
    ELSE IF r.realIP # <<>>
    THEN r.realIP
    ELSE IF LastIndex(r.remoteAddr) # 0
    THEN SubSeq(r.remoteAddr, 1, LastIndex(r.remoteAddr) - 1)
    ELSE r.remoteAddr

\* Handle, step 1.
HandleExtractIP(r) ==
    /\ api[r] = "Handle"
    /\ pc[r] = "recv"
    /\ req' = [req EXCEPT ![r].ip = extractIP(req[r])]
    /\ pc' = [pc EXCEPT ![r] = "http"]
    /\ UNCHANGED <<clock, storeVars, api, redisKeys, rateLimit, resp, config, input, now, result, out, calls,
                   histVars>>

\* The request of the priority example: X-Forwarded-For "1.2.3.4, 5.6.7.8",
\* X-Real-IP "9.8.7.6", remote address "10.0.0.1:4242".
PriorityExample ==
    [forwardedFor |-> <<"1", ".", "2", ".", "3", ".", "4", ",", " ", "5", ".", "6", ".", "7", ".", "8">>,
     realIP |-> <<"9", ".", "8", ".", "7", ".", "6">>,
     remoteAddr |-> <<"1", "0", ".", "0", ".", "0", ".", "1", ":", "4", "2", "4", "2">>,
     ip |-> <<>>, apiKey |-> ""]

\* The requests one connection can send: every short X-Forwarded-For of
\* digits, commas, spaces, tabs and ideographic spaces, X-Real-IP present or
\* absent, every short remote address of digits and colons; and the priority
\* example.
HeaderSets ==
    [forwardedFor : SeqsUpTo({"1", ",", " ", "\t", "U+3000"}, MaxHeaderLen),
     realIP : {<<>>, <<"9">>},
     remoteAddr : SeqsUpTo({"7", ":"}, MaxHeaderLen),
     ip : {<<>>}, apiKey : {""}]
        \cup {PriorityExample}

\* One request arrives; the other callers stay idle.
InitExtract ==
    /\ clock = 0
    /\ tokensKey = [k \in Identities |-> NoKey]
    /\ lastRefillKey = [k \in Identities |-> NoKey]
    /\ blockedKey = [k \in Identities |-> NoKey]
    /\ pc = [r \in Requests |-> IF r = 1 THEN "recv" ELSE "done"]
    /\ now = [r \in Requests |-> 0]
    /\ result = [r \in Requests |-> NoResult]
    /\ out = [r \in Requests |-> Pending]
    /\ calls = [r \in Requests |-> <<>>]
    /\ lastJE = -1
    /\ lastSet = [k \in Identities |-> NeverSet]
    /\ lastRun = 0
    /\ redisKeys = [r \in Requests |-> NoKeys]
    /\ batch = NoBatch
    /\ api = [r \in Requests |-> IF r = 1 THEN "Handle" ELSE "Execute"]
    /\ \E h \in HeaderSets :
          req = [r \in Requests |-> IF r = 1 THEN h ELSE NoRequest]
    /\ resp = [r \in Requests |-> NoResponse]
    /\ config = DefaultConfig
    /\ rateLimit = NoRateLimit
    /\ input = [r \in Requests |-> ZeroInput]

NextExtract == \E r \in Requests : HandleExtractIP(r)

SpecExtract == InitExtract /\ [][NextExtract]_vars

\* ------------------------------------------------------------- key names

\* The key names the storage uses for the caller's identity: those of
\* CheckAndConsume and the one of SetBlock and IsBlocked.
StorageKeys(r) ==
    /\ api[r] = "Keys"
    /\ pc[r] = "start"
    /\ redisKeys' = [redisKeys EXCEPT ![r] =
                        [canonical |-> String(input[r].Key),
                         tokens |-> generateTokenKeys(String(input[r].Key)).tokensKey,
                         lastRefill |-> generateTokenKeys(String(input[r].Key)).lastRefillKey,
                         blocked |-> generateBlockKey(input[r].Key)]]
    /\ pc' = [pc EXCEPT ![r] = "done"]
    /\ UNCHANGED <<clock, storeVars, api, httpVars, rateLimit, input, now, result, out, calls,
                   histVars>>

\* Values of identities: addresses and tokens, and values that end in one of
\* the storage's suffixes or begin with a kind.
KeyValues ==
    << "192.168.1.1", "abc123", "a", "a:tokens", "a:blocked", "a:last_refill",
       "a:tokens:blocked", "ip:a", "token:a", ":" >>

KeyIdentities ==
    [i \in 1 .. (2 * Len(KeyValues)) |->
        IF i <= Len(KeyValues)
        THEN NewIPKey(KeyValues[i])
        ELSE NewTokenKey(KeyValues[i - Len(KeyValues)])]

\* Each caller names the keys of an identity; callers are interchangeable and
\* take their identities in the order of KeyIdentities.
InitKeys ==
    /\ InitCommon
    /\ api = [r \in Requests |-> "Keys"]
    /\ req = [r \in Requests |-> NoRequest]
    /\ resp = [r \in Requests |-> NoResponse]
    /\ config = DefaultConfig
    /\ rateLimit = NoRateLimit
    /\ \E c \in [Requests -> 1 .. Len(KeyIdentities)] :
          /\ \A r, q \in Requests : r <= q => c[r] <= c[q]
          /\ input = [r \in Requests |-> [ValidInput EXCEPT !.Key = KeyIdentities[c[r]]]]

NextKeys == \E r \in Requests : StorageKeys(r)

SpecKeys == InitKeys /\ [][NextKeys]_vars

\* ------------------------------------------------------- one call at a time

\* A client that waits for each answer before its next request: an Execute
\* begins, and time passes, only while no other call is in flight.
SeqExecuteIsBlocked(r) == NoCallInFlight /\ ExecuteIsBlocked(r)

\* Windows of half a second and of one second (Go durations such as 500ms and
\* 1s), block times of one tick and of the longest.
InitSeq ==
    /\ InitCommon
    /\ api = [r \in Requests |-> "Execute"]
    /\ req = [r \in Requests |-> NoRequest]
    /\ resp = [r \in Requests |-> NoResponse]
    /\ config = DefaultConfig
    /\ rateLimit = NoRateLimit
    /\ \E p \in [Limit : Capacities,
                 Window : {TicksPerSec \div 2, TicksPerSec},
                 BlockTime : {1, MaxBlockTicks}] :
          input = [r \in Requests |-> InputOf(IpA, p)]

NextSeq ==
    \/ \E r \in Requests : SeqExecuteIsBlocked(r)
    \/ \E r \in Requests : CheckAndConsumeNow(r)
    \/ \E r \in Requests : RunTokenBucketScript(r)
    \/ \E r \in Requests : ExecuteSetBlock(r)
    \/ SeqTick

SpecSeq == InitSeq /\ [][NextSeq]_vars

\* The latest clock at which the client still sleeps: the time to live of the
\* bucket keys after the clocks of the bound, and the seconds of the bound
\* after that.
MaxRetryClock == MaxClock + (BucketTTLSeconds + MaxSeconds) * TicksPerSec

\* The client has had a pass after its bucket was exhausted.
Recovered(r) == lastJE >= 0 /\ out[r].ret = "ok" /\ out[r].Allowed

\* The client sends its next request, blocked or not and whatever the last
\* response was: a new Execute on the same input.  Past the clocks of the
\* bound it retries when its block has expired, until a pass follows an
\* exhaustion.
RetryExecute(r) ==
    /\ CallsExecute(r)
    /\ pc[r] = "done"
    /\ \/ clock < MaxClock
       \/ ~Recovered(r) /\ ~Exists(blockedKey[input[r].Key])
    /\ pc' = [pc EXCEPT ![r] = "start"]
    /\ out' = [out EXCEPT ![r] = Pending]
    /\ calls' = [calls EXCEPT ![r] = <<>>]
    /\ result' = [result EXCEPT ![r] = NoResult]
    /\ UNCHANGED <<clock, storeVars, api, redisKeys, rateLimit, httpVars, input, now, histVars>>

\* The sleeps of the client: every number of ticks up to the longest block.
SleepTicks == 1 .. MaxBlockTicks

\* time.Sleep(d) between two requests of the client; the sleep may end inside
\* the block, at its end or after it.  Past the clocks of the bound the
\* client sleeps through the rest of its block.
Sleep(d) ==
    /\ clock + d <= MaxRetryClock
    /\ \E r \in Requests :
          /\ CallsExecute(r) /\ pc[r] = "done"
          /\ \/ clock < MaxClock
             \/ /\ Exists(blockedKey[input[r].Key])
                /\ clock + d = blockedKey[input[r].Key].exp
    /\ Advance(d)

\* One client that exhausts its bucket and goes on sending requests and
\* sleeping, under every policy with a block time.
InitRetry ==
    /\ clock = 0
    /\ tokensKey = [k \in Identities |-> NoKey]
    /\ lastRefillKey = [k \in Identities |-> NoKey]
    /\ blockedKey = [k \in Identities |-> NoKey]
    /\ pc = [r \in Requests |-> IF r = 1 THEN "start" ELSE "idle"]
    /\ now = [r \in Requests |-> 0]
    /\ result = [r \in Requests |-> NoResult]
    /\ out = [r \in Requests |-> Pending]
    /\ calls = [r \in Requests |-> <<>>]
    /\ lastJE = -1
    /\ lastSet = [k \in Identities |-> NeverSet]
    /\ lastRun = 0
    /\ redisKeys = [r \in Requests |-> NoKeys]
    /\ batch = NoBatch
    /\ api = [r \in Requests |-> "Execute"]
    /\ req = [r \in Requests |-> NoRequest]
    /\ resp = [r \in Requests |-> NoResponse]
    /\ config = DefaultConfig
    /\ rateLimit = NoRateLimit
    /\ \E p \in [Limit : Capacities, Window : Windows, BlockTime : {1, MaxBlockTicks}] :
          input = [r \in Requests |-> InputOf(IpA, p)]

NextRetry ==
    \/ \E r \in Requests : ExecuteIsBlocked(r)
    \/ \E r \in Requests : CheckAndConsumeNow(r)
    \/ \E r \in Requests : RunTokenBucketScript(r)
    \/ \E r \in Requests : ExecuteSetBlock(r)
    \/ \E r \in Requests : RetryExecute(r)
    \/ \E d \in SleepTicks : Sleep(d)

\* The steps of the client and of the store on its behalf.
ClientStep ==
    \E r \in Requests :
        \/ ExecuteIsBlocked(r)
        \/ CheckAndConsumeNow(r)
        \/ RunTokenBucketScript(r)
        \/ ExecuteSetBlock(r)
        \/ RetryExecute(r)

\* The client keeps issuing requests and the store answers them, and time
\* advances: the client does not send without ever sleeping.
SpecRetry ==
    /\ InitRetry
    /\ [][NextRetry]_vars
    /\ WF_vars(ClientStep)
    /\ SF_vars(\E d \in SleepTicks : Sleep(d))

\* ------------------------------------------------------------ claim helpers

\* The outcomes of the decision engine, by the fields of the returned Output.
StandardMessage ==
    "you have reached the maximum number of requests or actions allowed within a certain time frame"

IsPass(o) ==
    o.ret = "ok" /\ o.Allowed /\ ~o.Blocked /\ o.Message = ""

IsPreBlocked(o) ==
    o.ret = "ok" /\ ~o.Allowed /\ o.Blocked /\ o.Message = StandardMessage

IsJustExhausted(o) ==
    o.ret = "ok" /\ ~o.Allowed /\ ~o.Blocked /\ o.Message = StandardMessage

\* The block flag of a key is in Redis and has not expired.
FlagPresent(key) == clock < blockedKey[key].exp

FlagPresentNext(key) == clock' < blockedKey'[key].exp

Max(a, b) == IF a >= b THEN a ELSE b

Returned == {r \in Requests : pc[r] = "done"}

\* No bucket key written so far can have expired.
NoBucketExpired == clock < BucketTTLSeconds * TicksPerSec

\* The callers whose script has run.
Ran == {r \in Requests : result[r].set}

\* ------------------------------------------------------------------ claims

\* C1: an Execute that finds the block flag present returns the blocked
\* output at once: it has called IsBlocked only, and the tokens, the last
\* refill and the flag (with its expiry) are as they were, however many
\* callers do so while the flag is there.
C1_BlockedShortCircuits ==
    [][\A r \in Requests :
          /\ (pc[r] = "start" /\ pc'[r] # "start" /\ FlagPresent(input[r].Key))
                => /\ pc'[r] = "done"
                   /\ IsPreBlocked(out'[r])
                   /\ calls'[r] = <<"IsBlocked">>
                   /\ storeVars' = storeVars
          /\ IsPreBlocked(out'[r]) => calls'[r] = <<"IsBlocked">>]_vars

C1_Witness ==
    \E r \in Requests :
        /\ IsPreBlocked(out[r])
        /\ FlagPresent(input[r].Key)
        /\ Exists(tokensKey[input[r].Key])

\* C2: when the bucket denies an Execute, Execute calls SetBlock with the
\* input's block time; if SetBlock succeeds Execute returns the "just
\* exhausted" output and the key's block flag is present at that moment.
C2_DeniedSetsBlock ==
    [][\A r \in Requests :
          /\ (pc[r] = "script" /\ pc'[r] # "script" /\ ~result'[r].Allowed)
                => pc'[r] = "setblock" /\ out'[r] = Pending
          /\ (pc[r] = "setblock" /\ pc'[r] # "setblock")
                => /\ pc'[r] = "done"
                   /\ calls'[r] = <<"IsBlocked", "CheckAndConsume", "SetBlock">>
                   /\ out'[r].ret = "ok"
                         => /\ IsJustExhausted(out'[r])
                            /\ FlagPresentNext(input[r].Key)
                            /\ blockedKey'[input[r].Key].exp
                                  = clock + input[r].BlockTime]_vars

C2_Witness ==
    \E r \in Requests :
        /\ IsJustExhausted(out[r])
        /\ calls[r] = <<"IsBlocked", "CheckAndConsume", "SetBlock">>
        /\ FlagPresent(input[r].Key)

\* C3: when the bucket allows an Execute, Execute returns the allowed output
\* with the CurrentTokens and Limit of the store's result, never calls
\* SetBlock, and leaves the block flags as they were.
C3_AllowedPasses ==
    [][\A r \in Requests :
          /\ (pc[r] = "script" /\ pc'[r] # "script" /\ result'[r].Allowed)
                => /\ pc'[r] = "done"
                   /\ IsPass(out'[r])
                   /\ out'[r].CurrentTokens = result'[r].CurrentTokens
                   /\ out'[r].Limit = result'[r].Limit
                   /\ blockedKey' = blockedKey
          /\ IsPass(out'[r])
                => /\ calls'[r] = <<"IsBlocked", "CheckAndConsume">>
                   /\ out'[r].CurrentTokens = result'[r].CurrentTokens
                   /\ out'[r].Limit = input[r].Limit]_vars

C3_Witness ==
    \E r \in Requests :
        /\ IsPass(out[r])
        /\ out[r].CurrentTokens = 1
        /\ out[r].Limit = 2
        /\ ~FlagPresent(input[r].Key)

\* C4: once an Execute on a key has returned "just exhausted" at time T,
\* every Execute on that key that begins (asks IsBlocked) at a time before
\* T + BlockTime returns the blocked output.
C4_DenialsAreMonotonic ==
    [][\A r \in Requests :
          (/\ pc[r] = "start" /\ pc'[r] # "start"
           /\ lastJE >= 0
           /\ clock < lastJE + input[r].BlockTime)
              => pc'[r] = "done" /\ IsPreBlocked(out'[r])]_vars

C4_Witness ==
    /\ lastJE >= 0
    /\ clock > lastJE
    /\ \E r, q \in Requests : IsJustExhausted(out[q]) /\ IsPreBlocked(out[r])

\* C7: N concurrent Executes on a fresh key of capacity C, with no clock
\* advance: once all have returned, exactly min(N, C) got the allowed
\* output, every other got "just exhausted" or the blocked output, and if
\* N > C the block flag is present.
C7_ConcurrentEvaluates ==
    (/\ clock = 0
     /\ \A r \in Requests : pc[r] \in {"start", "done"})
        => LET N == Cardinality(Returned)
               C == input[1].Limit
           IN  /\ Cardinality({r \in Returned : IsPass(out[r])}) = Min(N, C)
               /\ \A r \in Returned :
                     IsPass(out[r]) \/ IsJustExhausted(out[r]) \/ IsPreBlocked(out[r])
               /\ N > C => FlagPresent(IpA)

\* C7 on the policies whose block time is positive.
C7_WithPositiveBlockTime ==
    input[1].BlockTime > 0 => C7_ConcurrentEvaluates

\* C5: after every CheckAndConsume, the stored tokens and the returned
\* CurrentTokens are between 0 and the capacity.
C5_TokensWithinBounds ==
    /\ \A r \in Requests :
          result[r].set =>
              /\ 0 <= result[r].CurrentTokens
              /\ result[r].CurrentTokens <= input[r].Limit
    /\ \A r \in Requests :
          Exists(tokensKey[input[r].Key]) =>
              /\ 0 <= tokensKey[input[r].Key].val
              /\ tokensKey[input[r].Key].val <= input[r].Limit * TokenUnits

\* C6: of N >= 2 CheckAndConsume calls on a key that all carry one timestamp, run
\* in any order with no other call between them (and no expiry of the
\* bucket), exactly min(N, floor(initialTokens)) are allowed, initialTokens
\* being the refilled token count at that timestamp:
\* min(capacity, tokens + max(0, elapsed) * rate).
C6_InitialTokens ==
    Min(input[1].Limit * TokenUnits,
        batch.tokens0 + TokensToAdd(Max(0, batch.now - batch.last),
                                    input[1].Limit, input[1].Window))

C6_ExactlyInitialTokensAllowed ==
    (batch.n > 1 /\ NoBucketExpired) => batch.ok = Min(batch.n, C6_InitialTokens \div TokenUnits)

\* C6 with initialTokens read as the token count the script itself computes
\* for the first call of the run (no clamp of elapsed), floored at zero.
C6_ScriptRefilledTokens ==
    Refill(batch.tokens0, batch.last, input[1].Limit, input[1].Window, batch.now)

C6_ExactlyScriptTokensAllowed ==
    (batch.n > 1 /\ NoBucketExpired) =>
        batch.ok = Min(batch.n, Max(0, C6_ScriptRefilledTokens \div TokenUnits))

\* C8: while no bucket state has expired, the allowed CheckAndConsume
\* results with timestamps between t1 and t2 number at most
\* capacity + (t2 - t1) * capacity / window.
C8_RateBound ==
    \A t1, t2 \in 0 .. MaxSeconds :
        (t1 <= t2 /\ NoBucketExpired) =>
            Cardinality({r \in Requests :
                            /\ result[r].set /\ result[r].Allowed
                            /\ t1 <= now[r] /\ now[r] <= t2}) * input[1].Window
                <= input[1].Limit * input[1].Window
                     + (t2 - t1) * input[1].Limit * TicksPerSec

\* C9: on a fresh key, when every call so far carried one timestamp and the
\* clock has not advanced since the first of them ran, the k-th
\* CheckAndConsume for k = 1..capacity is allowed with
\* CurrentTokens = capacity - k and Limit = capacity, and call capacity + 1
\* is denied with Limit = capacity.
C9_FirstCapacityCallsAllowed ==
    (lastRun # 0 /\ batch.n = Cardinality(Ran) /\ clock = batch.at)
        => LET k == batch.n
               res == result[lastRun]
               capacity == input[lastRun].Limit
           IN  /\ k <= capacity =>
                     /\ res.Allowed
                     /\ res.CurrentTokens = capacity - k
                     /\ res.Limit = capacity
               /\ k = capacity + 1 => ~res.Allowed /\ res.Limit = capacity

C9_Witness ==
    /\ lastRun # 0
    /\ batch.n = Cardinality(Ran)
    /\ clock = batch.at
    /\ batch.n = input[lastRun].Limit + 1
    /\ ~result[lastRun].Allowed
    /\ \E r \in Requests : result[r].Allowed /\ result[r].CurrentTokens = 0

\* C10: an allowed CheckAndConsume returns CurrentTokens <= capacity - 1
\* whatever time has passed, and the first call on a fresh key made two
\* windows or more after the start is allowed with exactly capacity - 1.
C10_RefillCapped ==
    /\ \A r \in Requests :
          (result[r].set /\ result[r].Allowed)
              => result[r].CurrentTokens <= input[r].Limit - 1
    /\ (/\ lastRun # 0
        /\ Cardinality(Ran) = 1
        /\ now[lastRun] * TicksPerSec >= 2 * input[lastRun].Window)
          => /\ result[lastRun].Allowed
             /\ result[lastRun].CurrentTokens = input[lastRun].Limit - 1

\* A fresh key first contacted two windows after the start, then contacted
\* again a window or more later: both calls leave capacity - 1 of 2 tokens.
C10_Witness ==
    /\ lastRun # 0
    /\ NoBucketExpired
    /\ Cardinality(Ran) = 2
    /\ input[lastRun].Limit = 2
    /\ result[lastRun].Allowed
    /\ result[lastRun].CurrentTokens = input[lastRun].Limit - 1
    /\ \E q \in Ran :
          /\ now[q] * TicksPerSec >= 2 * input[q].Window
          /\ (now[lastRun] - now[q]) * TicksPerSec >= input[q].Window
          /\ result[q].Allowed
          /\ result[q].CurrentTokens = input[q].Limit - 1

\* Ticks since the latest script ran on the key: every script rewrites
\* last_refill with the full time to live.
SinceLastScript(key) ==
    clock - (lastRefillKey[key].exp - BucketTTLSeconds * TicksPerSec)

\* C11: when the latest call drained the bucket to 0 tokens and the next
\* call comes a fraction f of the window later, with f * capacity a whole
\* number >= 1, that call is allowed and returns f * capacity - 1.
C11_FractionalRefill ==
    [][\A r \in Requests :
          LET key == input[r].Key
              waited == SinceLastScript(key)
              refilled == waited * input[r].Limit * TokenUnits
          IN  (/\ pc[r] = "script" /\ pc'[r] = "done"
               /\ lastRun # 0
               /\ result[lastRun].Allowed
               /\ Exists(tokensKey[key]) /\ tokensKey[key].val = 0
               /\ 0 < waited /\ waited < input[r].Window
               /\ refilled % (input[r].Window * TokenUnits) = 0)
                  => /\ result'[r].Allowed
                     /\ result'[r].CurrentTokens
                           = refilled \div (input[r].Window * TokenUnits) - 1]_vars

\* The latest SetBlock on the key is still in force.
InForce(key) == lastSet[key].at >= 0 /\ clock < lastSet[key].at + lastSet[key].d

\* C12: after a SetBlock on a key at time t with block time d, and no later
\* SetBlock on it, an IsBlocked on the key returns true at every time in
\* [t, t + d) and false from t + d on; IsBlocked turns from false to true
\* only by a SetBlock on that key.
C12_BlockedForBlockTime ==
    [][/\ \A r \in Requests :
             (/\ api[r] = "IsBlocked" /\ pc[r] = "start" /\ pc'[r] = "done"
              /\ lastSet[input[r].Key].at >= 0)
                 => /\ out'[r].ret = "ok"
                    /\ out'[r].Blocked = InForce(input[r].Key)
       /\ \A k \in Identities :
             (~IsBlocked(k) /\ IsBlocked(k)') => lastSet'[k] # lastSet[k]
       /\ \A k \in Identities :
             (lastSet[k].at >= 0 /\ lastSet'[k] = lastSet[k])
                 => /\ IsBlocked(k) = InForce(k)
                    /\ IsBlocked(k)' = InForce(k)']_vars

\* An IsBlocked returned true, and a later one false after the block time.
C12_Witness ==
    \E r, q \in Requests :
        /\ api[r] = "IsBlocked" /\ out[r] = Returns(TRUE)
        /\ api[q] = "IsBlocked" /\ out[q] = Returns(FALSE)
        /\ lastSet[IpA].at >= 0
        /\ clock >= lastSet[IpA].at + lastSet[IpA].d

\* C13: IsBlocked on a key returns true only if a SetBlock on that key was
\* executed earlier and has not expired; CheckAndConsume on any key and
\* SetBlock on another key leave what IsBlocked returns for the key as it was.
C13_NoSpuriousBlock ==
    [][/\ \A r \in Requests :
             (/\ api[r] = "IsBlocked" /\ pc[r] = "start" /\ pc'[r] = "done"
              /\ out'[r].Blocked)
                 => InForce(input[r].Key)
       /\ \A k \in Identities : lastSet[k].at < 0 => ~IsBlocked(k)
       /\ \A r \in Requests : \A k \in Identities :
             (/\ pc'[r] # pc[r]
              /\ \/ api[r] = "CheckAndConsume"
                 \/ api[r] = "SetBlock" /\ input[r].Key # k)
                 => IsBlocked(k)' = IsBlocked(k)]_vars

\* The token key is blocked, a CheckAndConsume ran on the IP key, and
\* IsBlocked on the IP key returned false.
C13_Witness ==
    /\ InForce(TokA)
    /\ lastSet[IpA].at < 0
    /\ Exists(tokensKey[IpA])
    /\ \E r \in Requests : api[r] = "IsBlocked" /\ out[r] = Returns(FALSE)

\* C14: a SetBlock that succeeds leaves the key's flag present with expiry
\* equal to this call's time plus this call's block time, whether or not a
\* flag was there, and the flags of the other keys as they were.
C14_SetBlockIdempotent ==
    [][\A r \in Requests :
          (/\ api[r] = "SetBlock" /\ pc[r] = "start" /\ pc'[r] = "done"
           /\ out'[r].ret = "ok")
              => /\ FlagPresentNext(input[r].Key)
                 /\ blockedKey'[input[r].Key].exp = clock + input[r].BlockTime
                 /\ \A k \in Identities \ {input[r].Key} :
                       blockedKey'[k] = blockedKey[k]]_vars

\* Two SetBlock calls on the IP key with different block times succeeded, the
\* later one while the earlier flag was present and with the shorter block time.
C14_Witness ==
    \E r, q \in Requests :
        /\ api[r] = "SetBlock" /\ out[r].ret = "ok" /\ input[r].Key = IpA
        /\ api[q] = "SetBlock" /\ out[q].ret = "ok" /\ input[q].Key = IpA
        /\ input[q].BlockTime < input[r].BlockTime
        /\ lastSet[IpA].at = 1 /\ lastSet[IpA].d = input[q].BlockTime
        /\ blockedKey[IpA].exp = 1 + input[q].BlockTime
        /\ FlagPresent(IpA)

\* The inputs the engine must reject: an identity with an empty kind or an
\* empty value, capacity <= 0, window <= 0, block duration < 0.
Rejected(i) ==
    \/ i.Key.Type = "" \/ i.Key.Value = ""
    \/ i.Limit <= 0 \/ i.Window <= 0 \/ i.BlockTime < 0

\* C15: an Execute on a rejected input returns an error and no output in its
\* first step, without having called IsBlocked, CheckAndConsume or SetBlock,
\* and leaves the store as it was; an accepted input is not stopped there.
C15_InvalidInputRejected ==
    [][\A r \in Requests :
          (pc[r] = "start" /\ pc'[r] # "start")
              => IF Rejected(input[r])
                 THEN /\ pc'[r] = "done"
                      /\ out'[r].ret = "err"
                      /\ out'[r] = Error(out'[r].Err)
                      /\ calls'[r] = <<>>
                      /\ storeVars' = storeVars
                 ELSE calls'[r] = <<"IsBlocked">>]_vars

\* An Execute was rejected after another one had passed and left a bucket.
C15_Witness ==
    \E r, q \in Requests :
        /\ Rejected(input[r])
        /\ out[r] = Error("window must be positive")
        /\ calls[r] = <<>>
        /\ IsPass(out[q])
        /\ Exists(tokensKey[IpA])

\* C16: every Execute that has returned on an input the engine accepts
\* (block time 0 included) returned Pass, PreBlocked or JustExhausted,
\* not an error.
C16_DenyIsNeverAnError ==
    \A r \in Requests :
        (api[r] = "Execute" /\ pc[r] = "done" /\ ~Rejected(input[r]))
            => IsPass(out[r]) \/ IsPreBlocked(out[r]) \/ IsJustExhausted(out[r])

\* C17: an Execute whose IsBlocked fails returns that error and no output,
\* having called IsBlocked only; one whose CheckAndConsume fails returns that
\* error and no output, having called IsBlocked and CheckAndConsume only.
\* Neither writes to the store.
C17_StoreErrorsPropagate ==
    [][\A r \in Requests :
          /\ (/\ pc[r] = "start" /\ pc'[r] = "done"
               /\ (~FlagPresent(input[r].Key) \/ out'[r].ret = "err"))
                 => /\ out'[r] = Error(ErrIsBlocked)
                    /\ calls'[r] = <<"IsBlocked">>
                    /\ storeVars' = storeVars
          /\ (pc[r] = "script" /\ pc'[r] = "done" /\ ~result'[r].set)
                 => /\ out'[r] = Error(ErrCheckAndConsume)
                    /\ calls'[r] = <<"IsBlocked", "CheckAndConsume">>
                    /\ storeVars' = storeVars]_vars

\* Both store errors were returned, next to an Execute that left a bucket.
C17_Witness ==
    \E r, q \in Requests :
        /\ out[r] = Error(ErrIsBlocked) /\ calls[r] = <<"IsBlocked">>
        /\ out[q] = Error(ErrCheckAndConsume)
        /\ calls[q] = <<"IsBlocked", "CheckAndConsume">>
        /\ Exists(tokensKey[IpA])

\* The token count the script of r computes in its refill step, from the keys
\* as Redis holds them when it runs.
Refilled(r) ==
    LET key == input[r].Key
    IN  Refill(IF Exists(tokensKey[key]) THEN tokensKey[key].val
               ELSE input[r].Limit * TokenUnits,
               IF Exists(lastRefillKey[key]) THEN lastRefillKey[key].val ELSE now[r],
               input[r].Limit, input[r].Window, now[r])

\* The caller's SetBlock did not succeed, whatever the reason.
SetBlockFailed(r) == Len(calls[r]) = 3 /\ pc[r] = "done" /\ out[r] # createRateLimitExceededOutput(result[r])

PolicyOf(i) == [Limit |-> i.Limit, Window |-> i.Window, BlockTime |-> i.BlockTime]

IPPolicy ==
    [Limit |-> GetIPLimit, Window |-> GetIPWindow, BlockTime |-> GetIPBlockTime]

Registered(apiKey) == apiKey # "" /\ apiKey \in DOMAIN TokenConfigs

\* C19: the middleware resolves a request with a non-empty, registered API
\* key to the token identity of that key with that key's limit, window and
\* block time, and every other request (no key, unregistered key) to the IP
\* identity of the client with the IP policy; a token identity never carries
\* the IP policy and an IP identity never carries a token policy.
C19_StrictPrecedence ==
    [][\A r \in Requests :
          (pc[r] = "http" /\ pc'[r] # "http")
              => LET i == input'[r]
                     ip == req[r].ip
                     apiKey == req[r].apiKey
                 IN  /\ IF Registered(apiKey)
                        THEN /\ i.Key = [Type |-> KeyTypeToken, Value |-> apiKey]
                             /\ PolicyOf(i) = TokenConfigs[apiKey]
                        ELSE /\ i.Key = [Type |-> KeyTypeIP, Value |-> ip]
                             /\ PolicyOf(i) = IPPolicy
                     /\ i.Key.Type = KeyTypeToken => PolicyOf(i) # IPPolicy
                     /\ i.Key.Type = KeyTypeIP
                           => \A t \in DOMAIN TokenConfigs :
                                 PolicyOf(i) # TokenConfigs[t]
                     /\ i.Key.Type \in {KeyTypeToken, KeyTypeIP}]_vars

C19_Witness ==
    \E r, q, s \in Requests :
        /\ pc[r] # "http" /\ pc[q] # "http" /\ pc[s] # "http"
        /\ req[r].apiKey = "" /\ input[r].Key = IpA
        /\ req[q].apiKey = "unknown" /\ input[q].Key = IpA
        /\ req[s].apiKey = "abc123" /\ input[s].Key = TokA
        /\ input[s].Limit = MaxCapacity /\ input[r].Limit = GetIPLimit

\* C20: a step of a request evaluated on an IP identity, the step that sets
\* the IP's block flag included, leaves the tokens, the last refill and the
\* block flag of every token identity unchanged; and while the client's IP
\* identity is blocked, a request with a registered API key is not stopped
\* by IsBlocked and, finding no token bucket yet, passes with capacity - 1
\* tokens left.
C20_PerIdentity ==
    [][\A r \in Requests :
          LET key == input[r].Key
              ipKey == [Type |-> KeyTypeIP, Value |-> req[r].ip]
              tokenKey == [Type |-> KeyTypeToken, Value |-> req[r].apiKey]
          IN  /\ (pc[r] # "http" /\ pc'[r] # pc[r] /\ key.Type = KeyTypeIP)
                    => \A k \in Identities :
                          k.Type = KeyTypeToken
                              => /\ tokensKey'[k] = tokensKey[k]
                                 /\ lastRefillKey'[k] = lastRefillKey[k]
                                 /\ blockedKey'[k] = blockedKey[k]
              /\ (/\ pc[r] = "start" /\ pc'[r] # pc[r]
                  /\ Registered(req[r].apiKey)
                  /\ FlagPresent(ipKey)
                  /\ lastSet[tokenKey] = NeverSet)
                    => pc'[r] = "check"
              /\ (/\ pc[r] = "script" /\ pc'[r] # pc[r]
                  /\ Registered(req[r].apiKey)
                  /\ FlagPresent(ipKey)
                  /\ ~Exists(tokensKey[tokenKey]))
                    => /\ IsPass(out'[r])
                       /\ out'[r].CurrentTokens =
                              TokenConfigs[req[r].apiKey].Limit - 1]_vars

C20_Witness ==
    \E r, q \in Requests :
        /\ input[q].Key = IpA /\ IsJustExhausted(out[q])
        /\ FlagPresent(IpA)
        /\ req[r].ip = IpA.Value /\ input[r].Key = TokA
        /\ lastRun = r /\ batch.n = 1 /\ batch.at > lastSet[IpA].at
        /\ IsPass(out[r]) /\ out[r].CurrentTokens = input[r].Limit - 1
        /\ resp[r].next = 1 /\ resp[q].status = 429


\* C21: requests of one client that carry no API key or an unregistered one
\* are all evaluated on the client's IP identity and draw on one bucket: with
\* IP capacity C and no clock advance, the first C scripts Redis runs for
\* them are allowed and those requests pass, whatever the mix, and the next
\* one is denied and that request is just exhausted.
C21_UnregisteredKeyUsesIPBucket ==
    LET C == config.IPLimit
        built == {r \in Requests : pc[r] # "http"}
        allowed == {r \in Ran : result[r].Allowed}
    IN  /\ \A r \in built :
              /\ ~Registered(req[r].apiKey)
              /\ input[r].Key = [Type |-> KeyTypeIP, Value |-> req[r].ip]
              /\ input[r].Limit = C
        /\ clock = 0 =>
              /\ Cardinality(allowed) = Min(C, Cardinality(Ran))
              /\ \A r \in Ran :
                    pc[r] \in {"done", "responded"}
                        => IF result[r].Allowed
                           THEN IsPass(out[r]) /\ out[r].Limit = C
                           ELSE IsJustExhausted(out[r])
              /\ (lastRun # 0 /\ Cardinality(Ran) = C + 1)
                    => ~result[lastRun].Allowed

C21_Witness ==
    \E r, q, s \in Requests :
        /\ req[r].apiKey = "" /\ req[q].apiKey = "unknown" /\ req[s].apiKey = "ABC123"
        /\ Cardinality(Ran) = config.IPLimit + 1
        /\ config.IPLimit > 1
        /\ \E j \in {r, q, s} :
              /\ lastRun = j
              /\ IsJustExhausted(out[j])
              /\ resp[j].status = 429
              /\ \A i \in Ran \ {j} : IsPass(out[i]) /\ resp[i].next = 1


\* What a request ended in, by what the middleware did.
PassedThrough(r) == resp[r].next = 1 /\ resp[r].status = 0

Answered(r, status) == resp[r].next = 0 /\ resp[r].status = status

\* C22: the middleware invokes the next handler exactly once for a request
\* whose Execute returned an allowed output, and never for one whose Execute
\* returned a denial (blocked before, or just exhausted) or an error; a
\* request that has been answered ended in exactly one of pass-through, 429
\* and 500, and nothing is done for it before Execute has returned.
C22_NextHandlerOnlyOnPass ==
    \A r \in Requests :
        /\ resp[r].next <= 1
        /\ pc[r] # "responded" => resp[r] = NoResponse
        /\ pc[r] = "responded" =>
              /\ IsPass(out[r]) => PassedThrough(r)
              /\ (IsPreBlocked(out[r]) \/ IsJustExhausted(out[r])) => Answered(r, 429)
              /\ out[r].ret = "err" => Answered(r, 500)
              /\ \/ IsPass(out[r]) \/ IsPreBlocked(out[r])
                 \/ IsJustExhausted(out[r]) \/ out[r].ret = "err"
              /\ Cardinality({x \in {"pass", "429", "500"} :
                     \/ x = "pass" /\ PassedThrough(r)
                     \/ x = "429" /\ Answered(r, 429)
                     \/ x = "500" /\ Answered(r, 500)}) = 1

C22_Witness ==
    \E p, q, e \in Requests :
        /\ pc[p] = "responded" /\ IsPass(out[p]) /\ PassedThrough(p)
        /\ pc[q] = "responded" /\ IsJustExhausted(out[q]) /\ Answered(q, 429)
        /\ pc[e] = "responded" /\ out[e].ret = "err" /\ Answered(e, 500)

\* C23: a request whose Execute returned a denial, blocked before or just
\* exhausted, is answered 429 with the standard message in the body's message
\* field; one whose Execute returned an error, of the validation or of the
\* store, is answered 500 with "Internal Server Error" in the body's error
\* field and the error's text nowhere in the response; for a request that
\* passed the middleware writes no status and no body.
C23_ResponseBodies ==
    \A r \in Requests :
        pc[r] = "responded" =>
            /\ (IsPreBlocked(out[r]) \/ IsJustExhausted(out[r]))
                  => resp[r] = [status |-> 429, message |-> StandardMessage,
                                error |-> "", next |-> 0]
            /\ out[r].ret = "err"
                  => /\ resp[r] = [status |-> 500, message |-> "",
                                   error |-> "Internal Server Error", next |-> 0]
                     /\ out[r].Err \notin {resp[r].message, resp[r].error}
            /\ IsPass(out[r])
                  => resp[r].status = 0 /\ resp[r].message = "" /\ resp[r].error = ""

C23_Witness ==
    \E p, q \in Requests :
        /\ pc[p] = "responded" /\ IsJustExhausted(out[p]) /\ resp[p].status = 429
        /\ resp[p].message = StandardMessage
        /\ pc[q] = "responded" /\ IsPreBlocked(out[q]) /\ resp[q].status = 429
        /\ resp[q].message = StandardMessage


\* The candidates for the client IP, in the order of their priority.
IPCandidates(r) ==
    << TrimSpace(FirstEntry(r.forwardedFor)),
       r.realIP,
       IF LastIndex(r.remoteAddr) # 0
       THEN SubSeq(r.remoteAddr, 1, LastIndex(r.remoteAddr) - 1)
       ELSE r.remoteAddr >>

FirstNonEmpty(c) ==
    IF \A i \in 1 .. Len(c) : c[i] = <<>> THEN <<>>
    ELSE c[CHOOSE i \in 1 .. Len(c) : c[i] # <<>> /\ \A j \in 1 .. (i - 1) : c[j] = <<>>]

\* C24: the client IP the middleware extracts is the first non-empty of the
\* first comma-separated entry of X-Forwarded-For trimmed of whitespace, the
\* X-Real-IP value, and the remote address without its trailing :port; the
\* priority example resolves to 1.2.3.4, and an X-Forwarded-For whose first
\* entry is empty after trimming falls through to X-Real-IP.
C24_FirstNonEmptyWins ==
    \A r \in Requests :
        (api[r] = "Handle" /\ pc[r] = "http")
            => /\ req[r].ip = FirstNonEmpty(IPCandidates(req[r]))
               /\ [req[r] EXCEPT !.ip = <<>>] = PriorityExample
                     => req[r].ip = <<"1", ".", "2", ".", "3", ".", "4">>
               /\ (/\ req[r].forwardedFor # <<>>
                   /\ TrimSpace(FirstEntry(req[r].forwardedFor)) = <<>>
                   /\ req[r].realIP # <<>>)
                     => req[r].ip = req[r].realIP


\* The key names a caller's storage calls use.
KeyNames(r) == {redisKeys[r].tokens, redisKeys[r].lastRefill, redisKeys[r].blocked}

\* C25: two identities that differ in kind or in value have different
\* canonical strings, and no tokens, last_refill or blocked key of the one
\* is a key of the other; the three keys of one identity are distinct, and
\* the canonical string is rate_limit:<kind>:<value>.
C25_SerializationInjective ==
    \A r, q \in Requests :
        (pc[r] = "done" /\ pc[q] = "done")
            => /\ Cardinality(KeyNames(r)) = 3
               /\ input[r].Key # input[q].Key
                     => /\ redisKeys[r].canonical # redisKeys[q].canonical
                        /\ KeyNames(r) \cap KeyNames(q) = {}
               /\ input[r].Key = IpA => redisKeys[r].canonical = "rate_limit:ip:192.168.1.1"
               /\ input[r].Key = TokA => redisKeys[r].canonical = "rate_limit:token:abc123"

C25_Witness ==
    \E r, q \in Requests :
        /\ pc[r] = "done" /\ pc[q] = "done"
        /\ input[r].Key = NewIPKey("a:tokens") /\ input[q].Key = NewIPKey("a")
        /\ redisKeys[q].tokens = redisKeys[r].canonical
        /\ KeyNames(r) \cap KeyNames(q) = {}


\* The Execute of r is the first since a block was triggered: the latest
\* script Redis ran was the one of a request that was just exhausted, every
\* other request that returned had passed before it, and nothing else is in
\* flight.
FirstSinceBlock(r) ==
    /\ lastRun \in Requests \ {r}
    /\ IsJustExhausted(out[lastRun])
    /\ \A q \in Requests \ {r, lastRun} : pc[q] = "start" \/ IsPass(out[q])
    /\ lastSet[input[r].Key].at = lastJE

\* The time since the block was triggered is at least the block time and at
\* least the window.
BlockAndWindowOver(r) ==
    /\ clock >= lastJE + input[r].BlockTime
    /\ clock - lastJE >= input[r].Window

\* C26: when a block was triggered by an exhausted bucket at time t and the
\* next Execute on the identity comes at a time t' with t' >= t + block time
\* and t' - t >= window, that Execute is not stopped by the flag, and it
\* passes with CurrentTokens = capacity - 1.
C26_PassAfterBlockAndWindow ==
    [][\A r \in Requests :
          (FirstSinceBlock(r) /\ BlockAndWindowOver(r))
              => /\ (pc[r] = "start" /\ pc'[r] # "start") => pc'[r] = "check"
                 /\ (pc[r] = "script" /\ pc'[r] # "script")
                       => /\ IsPass(out'[r])
                          /\ out'[r].CurrentTokens = input[r].Limit - 1]_vars

\* The same for windows of whole seconds.
C26_WholeSecondWindows ==
    [][\A r \in Requests :
          (FirstSinceBlock(r) /\ BlockAndWindowOver(r) /\ input[r].Window % TicksPerSec = 0)
              => /\ (pc[r] = "start" /\ pc'[r] # "start") => pc'[r] = "check"
                 /\ (pc[r] = "script" /\ pc'[r] # "script")
                       => /\ IsPass(out'[r])
                          /\ out'[r].CurrentTokens = input[r].Limit - 1]_vars


\* A step in which Redis runs the script of r.
ScriptRuns(r) == pc[r] = "script" /\ result'[r].set /\ ~result[r].set

\* C27: an allowed CheckAndConsume stores the refilled token count less
\* exactly 1 as tokens, stores lastRefill = now, and returns the stored
\* token count as CurrentTokens.
C27_AllowedConsume ==
    [][\A r \in Requests :
          (ScriptRuns(r) /\ result'[r].Allowed)
              => LET key == input[r].Key
                 IN  /\ tokensKey'[key].val = Refilled(r) - TokenUnits
                     /\ lastRefillKey'[key].val = now[r]
                     /\ result'[r].CurrentTokens * TokenUnits = tokensKey'[key].val]_vars

\* C27 with the returned CurrentTokens read as the whole tokens stored.
C27_ReturnsWholeTokens ==
    [][\A r \in Requests :
          (ScriptRuns(r) /\ result'[r].Allowed)
              => LET key == input[r].Key
                 IN  /\ tokensKey'[key].val = Refilled(r) - TokenUnits
                     /\ lastRefillKey'[key].val = now[r]
                     /\ result'[r].CurrentTokens = tokensKey'[key].val \div TokenUnits]_vars


\* C28: a denied CheckAndConsume writes lastRefill = now and leaves the
\* tokens key as it was, returning the refill it computed; the tokens key
\* changes only when an allowed script runs, so it always holds what the
\* last allowed call left.
C28_DeniedKeepsTokens ==
    [][/\ \A r \in Requests :
             (ScriptRuns(r) /\ ~result'[r].Allowed)
                 => LET key == input[r].Key
                    IN  /\ lastRefillKey'[key].val = now[r]
                        /\ tokensKey'[key] = tokensKey[key]
                        /\ result'[r].CurrentTokens * TokenUnits = Refilled(r)
       /\ tokensKey' # tokensKey
             => \E r \in Requests :
                   /\ ScriptRuns(r) /\ result'[r].Allowed
                   /\ tokensKey' = [tokensKey EXCEPT ![input[r].Key] =
                                       [val |-> Refilled(r) - TokenUnits,
                                        exp |-> clock + BucketTTLSeconds * TicksPerSec]]]_vars

\* C28 with the returned CurrentTokens read as the whole tokens of the refill.
C28_ReturnsWholeTokens ==
    [][/\ \A r \in Requests :
             (ScriptRuns(r) /\ ~result'[r].Allowed)
                 => LET key == input[r].Key
                    IN  /\ lastRefillKey'[key].val = now[r]
                        /\ tokensKey'[key] = tokensKey[key]
                        /\ result'[r].CurrentTokens = ToRedisInteger(Refilled(r))
       /\ tokensKey' # tokensKey
             => \E r \in Requests :
                   /\ ScriptRuns(r) /\ result'[r].Allowed
                   /\ tokensKey' = [tokensKey EXCEPT ![input[r].Key] =
                                       [val |-> Refilled(r) - TokenUnits,
                                        exp |-> clock + BucketTTLSeconds * TicksPerSec]]]_vars


\* C29: refill never decreases tokens: when a call's timestamp is earlier
\* than the stored lastRefill, elapsed counts as zero, so the refilled count
\* the script decides on is never below the stored count.
C29_RefillNeverDecreases ==
    [][\A r \in Requests :
          (ScriptRuns(r) /\ Exists(tokensKey[input[r].Key]))
              => Refilled(r) >= tokensKey[input[r].Key].val]_vars


\* C30: a consume succeeds if and only if the refilled token count is at
\* least 1: a bucket holding more than 0 but less than 1 token is denied and
\* its tokens are left unchanged.  RateLimit.ConsumeToken likewise returns
\* ErrRateLimitExceeded and leaves CurrentTokens unchanged below 1 token, and
\* otherwise takes exactly 1.
C30_ConsumeThreshold ==
    [][/\ \A r \in Requests :
             ScriptRuns(r)
                 => LET key == input[r].Key
                    IN  /\ result'[r].Allowed <=> Refilled(r) >= TokenUnits
                        /\ (0 < Refilled(r) /\ Refilled(r) < TokenUnits)
                               => /\ ~result'[r].Allowed
                                  /\ tokensKey'[key] = tokensKey[key]
       /\ rateLimit' # rateLimit
             => IF rateLimit.CurrentTokens < EntityUnits
                THEN /\ rateLimit'.err = "ErrRateLimitExceeded"
                     /\ rateLimit'.CurrentTokens = rateLimit.CurrentTokens
                ELSE /\ rateLimit'.err = "nil"
                     /\ rateLimit'.CurrentTokens = rateLimit.CurrentTokens - EntityUnits]_vars

\* A script denied half a refilled token, and ConsumeToken refused a bucket
\* of half a token.
C30_Witness ==
    /\ \E r \in Requests :
          /\ result[r].set /\ ~result[r].Allowed /\ lastRun = r
          /\ batch.n = 1
          /\ Refill(batch.tokens0, batch.last, input[r].Limit, input[r].Window, batch.now)
                 \in 1 .. (TokenUnits - 1)
          /\ tokensKey[input[r].Key].val = batch.tokens0
    /\ rateLimit.err = "ErrRateLimitExceeded"
    /\ rateLimit.CurrentTokens \in 1 .. (EntityUnits - 1)


\* C31: after every CheckAndConsume, allowed or denied, the tokens key and
\* the last_refill key of the identity both carry a fresh time to live of
\* 3600 s, so the two keys expire together and neither is present without
\* the other.
C31_KeysShareFreshTTL ==
    [][\A r \in Requests :
          ScriptRuns(r)
              => LET key == input[r].Key
                     fresh == clock + BucketTTLSeconds * TicksPerSec
                 IN  /\ tokensKey'[key].exp = fresh
                     /\ lastRefillKey'[key].exp = fresh
                     /\ Exists(tokensKey'[key]) <=> Exists(lastRefillKey'[key])]_vars


\* A storage call the storage must reject: CheckAndConsume with a limit or
\* window that is not positive, SetBlock with a block time that is not
\* positive.
StoreRejects(r) ==
    \/ api[r] = "CheckAndConsume" /\ (input[r].Limit <= 0 \/ input[r].Window <= 0)
    \/ api[r] = "SetBlock" /\ input[r].BlockTime <= 0

\* C32: the store rejects programmer errors without touching state:
\* CheckAndConsume with limit <= 0 or window <= 0 and SetBlock with
\* blockTime <= 0 return an error before any store command is issued, and
\* tokens, lastRefill and the block flag are unchanged.
C32_RejectsWithoutTouchingState ==
    [][\A r \in Requests :
          (StoreRejects(r) /\ pc'[r] # pc[r])
              => /\ pc'[r] = "done"
                 /\ out'[r].ret = "err"
                 /\ UNCHANGED storeVars
                 /\ UNCHANGED <<now, result>>]_vars

\* A CheckAndConsume without a limit and a SetBlock without a block time
\* have returned their errors next to a bucket an accepted call has stored.
C32_Witness ==
    /\ \E r \in Requests :
          /\ api[r] = "CheckAndConsume" /\ input[r].Limit <= 0
          /\ pc[r] = "done" /\ out[r].ret = "err"
    /\ \E r \in Requests :
          /\ api[r] = "SetBlock" /\ input[r].BlockTime <= 0
          /\ pc[r] = "done" /\ out[r].Err = "block time must be positive"
    /\ Exists(tokensKey[IpA]) /\ ~Exists(blockedKey[IpA])


\* C33: the timestamp of the token-bucket step is the store's own clock at
\* the moment the script runs, so across the CheckAndConsume calls on one
\* identity the stored lastRefill never moves backwards.
C33_StoreClock ==
    [][\A r \in Requests :
          ScriptRuns(r)
              => LET key == input[r].Key
                 IN  /\ now[r] = UnixNow
                     /\ Exists(lastRefillKey[key])
                            => lastRefillKey'[key].val >= lastRefillKey[key].val]_vars


\* C34: no token is consumed and no pass is returned for an identity while
\* its block flag is present: whenever the CheckAndConsume of an Execute
\* returns allowed, the identity's block flag is absent at that moment.
C34_NoConsumeWhileBlocked ==
    [][\A r \in Requests :
          (CallsExecute(r) /\ ScriptRuns(r) /\ result'[r].Allowed)
              => ~Exists(blockedKey[input[r].Key])]_vars


\* The step in which Execute's SetBlock reaches Redis.
SetBlockRuns(r) ==
    /\ CallsExecute(r) /\ pc[r] = "setblock" /\ pc'[r] = "done"
    /\ input[r].BlockTime > 0

\* C35 as stated: a block flag is never updated: SetBlock is executed only
\* when no unexpired flag exists for the identity, so the expiry of a flag is
\* never moved while the flag is present.
C35_FlagNeverUpdated ==
    [][/\ \A r \in Requests :
             SetBlockRuns(r) => ~Exists(blockedKey[input[r].Key])
       /\ \A k \in Identities :
             Exists(blockedKey[k]) => blockedKey'[k].exp = blockedKey[k].exp]_vars

\* C35, amended: an Execute calls SetBlock after its own IsBlocked found no
\* flag and its CheckAndConsume was denied, whether or not another Execute
\* has set the flag since; every SetBlock puts the expiry at its own time plus
\* the block time, moving the expiry of a flag that is present, so the
\* penalty lasts the block time from the latest violation; nothing else
\* changes a flag.
C35_FlagRefreshedByLatestViolation ==
    [][/\ \A r \in Requests :
             SetBlockRuns(r)
                 => /\ calls[r] = <<"IsBlocked", "CheckAndConsume">>
                    /\ result[r].set /\ ~result[r].Allowed
                    /\ blockedKey'[input[r].Key].exp = clock + input[r].BlockTime
                    /\ Exists(blockedKey'[input[r].Key])
       /\ blockedKey' # blockedKey => \E r \in Requests : SetBlockRuns(r)]_vars

\* Two Executes were denied; the SetBlock of the later one found the flag of
\* the earlier one unexpired and moved its expiry.
C35_Witness ==
    /\ lastSet[IpA].at >= 0
    /\ lastSet[IpA].prev > lastSet[IpA].at
    /\ blockedKey[IpA].exp > lastSet[IpA].prev
    /\ \E r, q \in Requests :
          /\ r # q
          /\ IsJustExhausted(out[r])
          /\ IsJustExhausted(out[q])


\* The store operations of an Execute, in the order it may call them.
StoreCallOrder == <<"IsBlocked", "CheckAndConsume", "SetBlock">>

\* An Execute that has returned has exactly one of the four outcomes.
OneOutcome(o) ==
    /\ IsPass(o) \/ IsPreBlocked(o) \/ IsJustExhausted(o) \/ o.ret = "err"
    /\ ~(IsPass(o) /\ IsPreBlocked(o))
    /\ ~(IsPass(o) /\ IsJustExhausted(o))
    /\ ~(IsPreBlocked(o) /\ IsJustExhausted(o))
    /\ o.ret = "err" => ~(IsPass(o) \/ IsPreBlocked(o) \/ IsJustExhausted(o))

\* C36: each Execute invokes each store operation at most once and only in
\* the order IsBlocked, CheckAndConsume, SetBlock; it never retries after a
\* failure (the failed call is its last), and it always terminates, with
\* exactly one outcome that it keeps.
C36_OnePassThenOutcome ==
    /\ [](\A r \in Requests :
             /\ Len(calls[r]) <= Len(StoreCallOrder)
             /\ Len(calls[r]) <= Len(StoreCallOrder)
                    => calls[r] = SubSeq(StoreCallOrder, 1, Len(calls[r]))
             /\ (pc[r] = "done") <=> (out[r].ret # "pending")
             /\ pc[r] = "done" => OneOutcome(out[r]))
    /\ [][\A r \in Requests :
             pc[r] = "done"
                 => pc'[r] = "done" /\ out'[r] = out[r] /\ calls'[r] = calls[r]]_vars
    /\ <>(\A r \in Requests : pc[r] = "done")

\* Three Executes have returned: a pass, a just-exhausted after all three
\* store calls, and the error of a store call that failed and was the last.
C36_Witness ==
    \E r, q, e \in Requests :
        /\ pc[r] = "done" /\ IsPass(out[r]) /\ Len(calls[r]) = 2
        /\ pc[q] = "done" /\ IsJustExhausted(out[q]) /\ calls[q] = StoreCallOrder
        /\ pc[e] = "done" /\ out[e].ret = "err" /\ out[e].Err = ErrCheckAndConsume
        /\ calls[e] = <<"IsBlocked", "CheckAndConsume">>


\* C37: no starvation: under every policy with a block time, an identity
\* that has exhausted its bucket and keeps issuing Executes, one right after
\* each block expires, eventually receives a pass.
C37_NoStarvation ==
    (\E r \in Requests : IsJustExhausted(out[r])) ~> (\E r \in Requests : Recovered(r))

\* The client has recovered only when the tokens key set by its last pass
\* had expired: every retry before that was denied.
C37_Witness ==
    \E r \in Requests :
        /\ Recovered(r) /\ IsPass(out[r]) /\ pc[r] = "done"
        /\ clock >= BucketTTLSeconds * TicksPerSec
        /\ lastJE > 0


\* The second of the last allowed consume on a key, read off the expiry that
\* consume gave the tokens key.
LastConsumeSec(key) ==
    (tokensKey[key].exp - BucketTTLSeconds * TicksPerSec) \div TicksPerSec

\* C38: denied calls are outcome-neutral: the tokens a call sees equal
\* min(capacity, tokens left by the last allowed consume + refill rate * time
\* since that consume), whatever denied calls were made in between, so a
\* denial neither double-credits nor loses refill.
C38_DenialsAreNeutral ==
    [][\A r \in Requests :
          (ScriptRuns(r) /\ Exists(tokensKey[input[r].Key]))
              => LET key == input[r].Key
                 IN  Refilled(r) =
                        Min(input[r].Limit * TokenUnits,
                            tokensKey[key].val
                                + TokensToAdd(now[r] - LastConsumeSec(key),
                                              input[r].Limit, input[r].Window))]_vars


\* The refilled tokens a call would see had the keys of its identity, once
\* written, never expired.
RefilledRetained(r) ==
    LET key == input[r].Key
    IN  Refill(IF tokensKey[key].exp > 0 THEN tokensKey[key].val
                                         ELSE input[r].Limit * TokenUnits,
               IF lastRefillKey[key].exp > 0 THEN lastRefillKey[key].val ELSE now[r],
               input[r].Limit, input[r].Window, now[r])

\* C39: idle expiry is invisible: a CheckAndConsume on an identity whose
\* bucket keys, one or both, have expired returns the same allowed result and
\* the same CurrentTokens as it would had the keys been retained.
C39_ExpiryInvisible ==
    [][\A r \in Requests :
          ScriptRuns(r)
              => /\ result'[r].Allowed <=> CanConsume(RefilledRetained(r))
                 /\ result'[r].CurrentTokens =
                        ToRedisInteger(IF CanConsume(RefilledRetained(r))
                                       THEN Consume(RefilledRetained(r))
                                       ELSE RefilledRetained(r))]_vars


\* The RateLimit holds what the storage holds for the identity of r: the
\* tokens and the last refill of the two keys, or a full bucket where the
\* storage has no key.
SameBucket(r) ==
    LET key == input[r].Key
    IN  /\ rateLimit.Limit = input[r].Limit
        /\ rateLimit.Window = input[r].Window
        /\ IF Exists(tokensKey[key]) /\ Exists(lastRefillKey[key])
           THEN /\ rateLimit.CurrentTokens = tokensKey[key].val * TicksPerSec
                /\ rateLimit.LastRefill = lastRefillKey[key].val * TicksPerSec
           ELSE /\ ~Exists(tokensKey[key]) /\ ~Exists(lastRefillKey[key])
                /\ rateLimit.CurrentTokens = input[r].Limit * EntityUnits

\* C40: the token-bucket script agrees with the domain entity: for the same
\* stored tokens and lastRefill, capacity, window and now, the script's
\* allowed result and returned tokens are those of RefillTokens(now) followed
\* by ConsumeToken, and both leave the same tokens and lastRefill behind, on
\* the allowed branch and on the denied branch.
C40_ScriptAgreesWithEntity ==
    [][\A r \in Requests :
          (ScriptRuns(r) /\ SameBucket(r) /\ clock = now[r] * TicksPerSec)
              => LET key == input[r].Key
                     e == AfterConsumeToken(RefillTokens(rateLimit, clock))
                 IN  /\ result'[r].Allowed <=> e.err = "nil"
                     /\ result'[r].CurrentTokens * EntityUnits = e.CurrentTokens
                     /\ tokensKey'[key].val * TicksPerSec = e.CurrentTokens
                     /\ lastRefillKey'[key].val * TicksPerSec = e.LastRefill]_vars


=============================================================================
